---- MODULE Spec2Model ----
(***************************************************************************)
(* Model of the novel translator: the resumable line-by-line chapter       *)
(* translation (src/src/index.ts) and the keyword term store               *)
(* (src/src/keywords.ts, src/unnamed/part_001).                            *)
(*                                                                         *)
(* Strings are sequences of one-character tokens; the tokens "CR", "LF"    *)
(* and "U2026" stand for carriage return, line feed and the horizontal     *)
(* ellipsis character.  Source indices are 1-based here: position p of a   *)
(* sequence is index p-1 of the TypeScript array.                          *)
(***************************************************************************)
EXTENDS Integers, Sequences, FiniteSets, TLC

\* ------------------------------------------------------------ characters

SP == " "
CR == "CR"
LF == "LF"
ELLIPSIS == "U2026"
STAR == "*"
DOT == "."

\* White space as String.prototype.trim sees it (of the tokens used here).
IsWhiteSpace(c) == c \in {SP, CR, LF}

RECURSIVE TrimStart(_)
TrimStart(s) ==
    IF s # <<>> /\ IsWhiteSpace(Head(s)) THEN TrimStart(Tail(s)) ELSE s

RECURSIVE TrimEnd(_)
TrimEnd(s) ==
    IF s # <<>> /\ IsWhiteSpace(s[Len(s)])
    THEN TrimEnd(SubSeq(s, 1, Len(s) - 1))
    ELSE s

\* String.prototype.trim
trim(s) == TrimEnd(TrimStart(s))

\* String.prototype.toLowerCase on the letters used here.
LowerChar(c) == IF c = "S" THEN "s" ELSE IF c = "B" THEN "b" ELSE c

toLowerCase(s) == [k \in 1..Len(s) |-> LowerChar(s[k])]

\* skipRegex = /^[ …\r\*]+$/ : one or more of space, ellipsis, CR, asterisk.
skipRegex(line) ==
    /\ Len(line) >= 1
    /\ \A k \in 1..Len(line) : line[k] \in {SP, ELLIPSIS, CR, STAR}

\* content.split(/\r?\n/)
RECURSIVE SplitAcc(_, _, _)
SplitAcc(rest, cur, acc) ==
    IF rest = <<>> THEN Append(acc, cur)
    ELSE IF Head(rest) = LF THEN SplitAcc(Tail(rest), <<>>, Append(acc, cur))
    ELSE IF Head(rest) = CR /\ Len(rest) >= 2 /\ rest[2] = LF
         THEN SplitAcc(Tail(Tail(rest)), <<>>, Append(acc, cur))
    ELSE SplitAcc(Tail(rest), Append(cur, Head(rest)), acc)

split(content) == SplitAcc(content, <<>>, <<>>)

\* lines.join(sep)
RECURSIVE join(_, _)
join(lines, sep) ==
    IF lines = <<>> THEN <<>>
    ELSE IF Len(lines) = 1 THEN lines[1]
    ELSE lines[1] \o sep \o join(Tail(lines), sep)

\* Sequences over S of length lo..hi.
SeqsOf(S, lo, hi) == UNION {[1..n -> S] : n \in lo..hi}

\* ------------------------------------------------------------- constants

CONTEXT_WINDOW == 5
MAX_RETRIES == 2
\* The threshold of `consecutiveFailures >= 5`.
FAILURE_LIMIT == 5

\* Bounds of the model.
NumChapters == 2
MaxRestarts == 1
MaxParagraphs == 1
MaxFailParagraphs == 5
MaxResumeParagraphs == 6
MaxSnapshot == 2
MaxKeywordParagraphs == 2
MaxChapterParagraphs == 2
MaxLiveParagraphs == 5

ChapterIds == 1..NumChapters

\* ----------------------------------------------------------------- files

\* A text file: fs.access / fs.readFile see `exists` and `data`.
NoFile == [exists |-> FALSE, data |-> <<>>]
TextFile(content) == [exists |-> TRUE, data |-> content]

\* A JSON file holding an array.  `ok` is whether JSON.parse accepts the
\* bytes; a truncated write leaves a file that exists and does not parse.
NoJson == [exists |-> FALSE, ok |-> FALSE, value |-> <<>>]
\* JSON.stringify(value, null, 2) written to the file.
JsonFile(value) == [exists |-> TRUE, ok |-> TRUE, value |-> value]
TruncatedJson == [exists |-> TRUE, ok |-> FALSE, value |-> <<>>]

\* fs.readFile + JSON.parse: the error code, or "ok".
ReadJsonOutcomes(file, readFaults) ==
    IF ~file.exists THEN {"ENOENT"}
    ELSE (IF file.ok THEN {"ok"} ELSE {"SyntaxError"})
         \cup (IF readFaults THEN {"EIO"} ELSE {})

\* ------------------------------------------------------------- variables

VARIABLES
    env,                 \* the setting of the run: its pages, chapters, responses, faults
    genai,               \* the genai module: clients, clientIndices, and the calls made
    sourceFile,          \* process/chapters/source/chapter_N.txt
    translatedFile,      \* process/chapters/translated/chapter_N.txt
    stateFile,           \* process/chapters/translation-state/chapter_N.json
    store,               \* the ChromaDB collection: a set of [id, metadata]
    keywordsJson,        \* process/keywords/<collection>.json
    termOp,              \* history: the last operation on the term store
    pc,                  \* where the process is
    ci,                  \* position of main's for-of loop in the chapter list
    chapterNumber,       \* translateChapter's arguments and locals ...
    sourceLines,
    translatedLines,
    startIndex,
    previousLinesBuffer,
    i,
    attempts,
    consecutiveFailures,
    currentTranslatedLine,
    restarts,            \* how often the process was started again so far
    inv,                 \* history of the current translateChapter invocation
    run,                 \* history of the current process run
    lastKill             \* history: what the killed run held when it was killed

files == <<sourceFile, translatedFile, stateFile>>
terms == <<store, keywordsJson, termOp>>
locals == <<chapterNumber, sourceLines, translatedLines, startIndex,
            previousLinesBuffer, i, attempts, consecutiveFailures,
            currentTranslatedLine>>
history == <<inv, run, lastKill>>
vars == <<env, genai, files, terms, pc, ci, locals, restarts, history>>

\* ------------------------------------------------------------ term store

\* keyword.from.toLowerCase().trim(): the document id of a keyword.
KeywordId(keyword) == trim(toLowerCase(keyword.from))

\* String.prototype.localeCompare on the characters used here: white space
\* and punctuation before letters, letters by alphabet first and by case
\* (lower before upper) only to break a tie.
Collation == <<SP, STAR, DOT, "a", "b", "s", "x", "y">>
PrimaryRank(c) ==
    IF \E k \in 1..Len(Collation) : Collation[k] = LowerChar(c)
    THEN CHOOSE k \in 1..Len(Collation) : Collation[k] = LowerChar(c)
    ELSE 0
PrimaryKey(s) == [k \in 1..Len(s) |-> PrimaryRank(s[k])]
CaseKey(s) == [k \in 1..Len(s) |-> IF s[k] = LowerChar(s[k]) THEN 0 ELSE 1]

RECURSIVE SeqLess(_, _)
SeqLess(x, y) ==
    IF y = <<>> THEN FALSE
    ELSE IF x = <<>> THEN TRUE
    ELSE IF Head(x) # Head(y) THEN Head(x) < Head(y)
    ELSE SeqLess(Tail(x), Tail(y))

\* a.localeCompare(b) < 0
localeCompareLess(a, b) ==
    \/ SeqLess(PrimaryKey(a), PrimaryKey(b))
    \/ PrimaryKey(a) = PrimaryKey(b) /\ SeqLess(CaseKey(a), CaseKey(b))

\* A faulty sort: descending.
RECURSIVE SortByFromDescending(_)
SortByFromDescending(kws) ==
    IF kws = {} THEN <<>>
    ELSE LET first == CHOOSE x \in kws :
                        \A y \in kws : ~localeCompareLess(x.from, y.from)
         IN <<first>> \o SortByFromDescending(kws \ {first})

\* allKeywords.sort((a, b) => a.from.localeCompare(b.from))
RECURSIVE SortByFrom(_)
SortByFrom(kws) ==
    IF kws = {} THEN <<>>
    ELSE LET first == CHOOSE x \in kws :
                        \A y \in kws : ~localeCompareLess(y.from, x.from)
         IN <<first>> \o SortByFrom(kws \ {first})

StoreIds(st) == {e.id : e \in st}
Metadatas(st) == {e.metadata : e \in st}

\* fetchAllKeywordsAndSave: every stored metadata, sorted by `from`, written
\* as the JSON backup; a failed write is logged and leaves the file as is.
fetchAllKeywordsAndSave(st, json, saveOk) ==
    IF saveOk THEN JsonFile(SortByFrom(Metadatas(st))) ELSE json

\* A faulty add: the id is `from` as given, not normalized.
CollectionAddRawId(st, keyword) ==
    IF keyword.from \in StoreIds(st) THEN st
    ELSE st \cup {[id |-> keyword.from, metadata |-> keyword]}

\* A faulty add: the collection is left with the new document alone.
CollectionAddReplacing(st, keyword) ==
    {[id |-> KeywordId(keyword), metadata |-> keyword]}

\* collection.add of one document: an id the collection already holds is
\* not written again (the call throws or ignores it, see `added`).
CollectionAdd(st, keyword) ==
    IF KeywordId(keyword) \in StoreIds(st) THEN st
    ELSE st \cup {[id |-> KeywordId(keyword), metadata |-> keyword]}

\* The outcomes one addKeywordDocument call can have: whether the embedding
\* comes back, whether collection.add resolves, whether the backup is written.
AddOutcomes(faults) ==
    [embed : IF "embed" \in faults THEN BOOLEAN ELSE {TRUE},
     add   : IF "store" \in faults THEN BOOLEAN ELSE {TRUE},
     save  : IF "save" \in faults THEN BOOLEAN ELSE {TRUE}]

\* addKeywordDocument(collection, keyword) under outcome o.  `threw` is
\* whether the call rejects (only the embedding failure does: an error of
\* collection.add is swallowed by the empty catch).
addKeywordDocument(st, json, keyword, o) ==
    IF ~o.embed
    THEN [store |-> st, json |-> json, threw |-> TRUE, added |-> FALSE]
    ELSE LET added == o.add
             st2 == IF added THEN CollectionAdd(st, keyword) ELSE st
         IN [store |-> st2,
             json  |-> IF added THEN fetchAllKeywordsAndSave(st2, json, o.save)
                       ELSE json,
             threw |-> FALSE,
             added |-> added]

\* A faulty loop, without the try around the call: the first rejected call
\* ends it.
RECURSIVE AddNewKeywordsUncaught(_, _, _, _)
AddNewKeywordsUncaught(st, json, keywords, outs) ==
    IF keywords = <<>>
    THEN [store |-> st, json |-> json, calls |-> 0, tried |-> <<>>]
    ELSE IF trim(Head(keywords).from) = <<>>
         THEN AddNewKeywordsUncaught(st, json, Tail(keywords), Tail(outs))
    ELSE LET r == addKeywordDocument(st, json, Head(keywords), Head(outs))
             this == [keyword |-> Head(keywords), threw |-> r.threw,
                      added |-> r.added]
             rest == IF r.threw
                     THEN [store |-> r.store, json |-> r.json, calls |-> 0,
                           tried |-> <<>>]
                     ELSE AddNewKeywordsUncaught(r.store, r.json,
                                                 Tail(keywords), Tail(outs))
         IN [rest EXCEPT !.calls = @ + 1, !.tried = <<this>> \o @]

\* The loop of translateChapter over result.newKeywords: a keyword whose
\* `from` trims to nothing is skipped, a rejected call is caught and logged.
\* outs[k] is the outcome of the call for keyword k.  `tried` lists the
\* calls made: the keyword, whether the call rejected, whether
\* collection.add resolved.
RECURSIVE AddNewKeywords(_, _, _, _)
AddNewKeywords(st, json, keywords, outs) ==
    IF keywords = <<>>
    THEN [store |-> st, json |-> json, calls |-> 0, tried |-> <<>>]
    ELSE IF trim(Head(keywords).from) = <<>>
         THEN AddNewKeywords(st, json, Tail(keywords), Tail(outs))
    ELSE LET r == addKeywordDocument(st, json, Head(keywords), Head(outs))
             this == [keyword |-> Head(keywords), threw |-> r.threw,
                      added |-> r.added]
             rest == AddNewKeywords(r.store, r.json, Tail(keywords), Tail(outs))
         IN [rest EXCEPT !.calls = @ + 1, !.tried = <<this>> \o @]

\* collection.upsert of a batch, in order: an id already held is overwritten.
RECURSIVE CollectionUpsert(_, _)
CollectionUpsert(st, batch) ==
    IF batch = <<>> THEN st
    ELSE LET e == [id |-> KeywordId(Head(batch)), metadata |-> Head(batch)]
         IN CollectionUpsert({x \in st : x.id # e.id} \cup {e}, Tail(batch))

\* currentKeywordsMap.get(key): the stored metadata under the normalised id.
CurrentKeyword(st, key) ==
    {e.metadata : e \in {x \in st : trim(toLowerCase(x.id)) = key}}

\* A faulty diff: only the entries missing in the collection are taken.
RECURSIVE keywordsToUpsertMissingOnly(_, _)
keywordsToUpsertMissingOnly(st, fromJson) ==
    IF fromJson = <<>> THEN <<>>
    ELSE (IF CurrentKeyword(st, KeywordId(Head(fromJson))) = {}
          THEN <<Head(fromJson)>> ELSE <<>>)
         \o keywordsToUpsertMissingOnly(st, Tail(fromJson))

\* Step 3 of syncKeywordsFromJson: the backup's entries that are missing in
\* the collection or stored with another `to`.
RECURSIVE keywordsToUpsert(_, _)
keywordsToUpsert(st, fromJson) ==
    IF fromJson = <<>> THEN <<>>
    ELSE LET kw == Head(fromJson)
             db == CurrentKeyword(st, KeywordId(kw))
             need == db = {} \/ \E d \in db : d.to # kw.to
         IN (IF need THEN <<kw>> ELSE <<>>)
            \o keywordsToUpsert(st, Tail(fromJson))

\* A faulty embedding loop: one failed embedding empties the batch.
EmbeddedOrNone(kws, embedOk) ==
    IF \A k \in 1..Len(kws) : embedOk[k] THEN kws ELSE <<>>

\* The embedding loop of syncKeywordsFromJson: a keyword whose embedding
\* fails is skipped, the others make the batch, in order.
RECURSIVE Embedded(_, _)
Embedded(kws, embedOk) ==
    IF kws = <<>> THEN <<>>
    ELSE (IF Head(embedOk) THEN <<Head(kws)>> ELSE <<>>)
         \o Embedded(Tail(kws), Tail(embedOk))

\* A faulty synchronisation: the backup is not written after the upsert.
syncKeywordsFromJsonWithoutSave(st, json, o) ==
    IF ~json.exists \/ ~json.ok
    THEN [store |-> st, json |-> json, upserted |-> <<>>]
    ELSE LET todo == keywordsToUpsert(st, json.value)
             batch == Embedded(todo, o.embedOk)
         IN IF todo = <<>> \/ batch = <<>> \/ ~o.upsert
            THEN [store |-> st, json |-> json, upserted |-> <<>>]
            ELSE [store |-> CollectionUpsert(st, batch), json |-> json,
                  upserted |-> batch]

\* syncKeywordsFromJson under outcome o: embedOk[k] for the k-th keyword to
\* upsert, `upsert` for the bulk call, `save` for the backup write.
syncKeywordsFromJson(st, json, o) ==
    IF ~json.exists \/ ~json.ok
    THEN [store |-> st, json |-> json, upserted |-> <<>>]
    ELSE LET todo == keywordsToUpsert(st, json.value)
             batch == Embedded(todo, o.embedOk)
         IN IF todo = <<>> \/ batch = <<>> \/ ~o.upsert
            THEN [store |-> st, json |-> json, upserted |-> <<>>]
            ELSE LET st2 == CollectionUpsert(st, batch)
                 IN [store |-> st2,
                     json |-> fetchAllKeywordsAndSave(st2, json, o.save),
                     upserted |-> batch]

\* ------------------------------------------------- translateChapter, pure

Max(a, b) == IF a >= b THEN a ELSE b
Min(a, b) == IF a <= b THEN a ELSE b

\* previousLinesBuffer.push(entry); if (length > CONTEXT_WINDOW) shift()
PushBuffer(buffer, entry) ==
    LET pushed == Append(buffer, entry)
    IN IF Len(pushed) > CONTEXT_WINDOW THEN Tail(pushed) ELSE pushed

\* The reconstruction loop: j runs over the 0-based indices
\* max(0, startIndex - CONTEXT_WINDOW) .. startIndex - 1.
RECURSIVE RebuildFrom(_, _, _, _)
RebuildFrom(j, lines, loaded, buffer) ==
    IF j >= Len(loaded) THEN buffer
    ELSE LET originalLine == lines[j + 1]
             sourceLineTrimmed == trim(originalLine)
             translatedLine == loaded[j + 1]
             next == IF j < Len(lines)
                        /\ sourceLineTrimmed # <<>>
                        /\ ~skipRegex(originalLine)
                     THEN PushBuffer(buffer, [from |-> sourceLineTrimmed,
                                              to |-> translatedLine])
                     ELSE buffer
         IN RebuildFrom(j + 1, lines, loaded, next)

RebuildBuffer(lines, loaded) ==
    RebuildFrom(Max(0, Len(loaded) - CONTEXT_WINDOW), lines, loaded, <<>>)

\* sourceLines.slice(i + 1, i + 1 + CONTEXT_WINDOW).map(trim)
\*            .filter(line => line && !skipRegex.test(line))
RECURSIVE FutureFrom(_, _, _)
FutureFrom(lines, p, last) ==
    IF p > last THEN <<>>
    ELSE LET line == trim(lines[p])
         IN (IF line # <<>> /\ ~skipRegex(line) THEN <<line>> ELSE <<>>)
            \o FutureFrom(lines, p + 1, last)

futureLines(lines, idx) ==
    FutureFrom(lines, idx + 2, Min(Len(lines), idx + 1 + CONTEXT_WINDOW))

\* `NOT TRANSLATED: ${currentLine}`
NotTranslated(currentLine) == <<"NOT TRANSLATED: ">> \o currentLine

\* searchKeyword(collection, query, nResults): the stored keywords nearest
\* to the query, at most nResults of them.
searchKeyword(st, query, nResults) ==
    IF Cardinality(st) <= nResults THEN Metadatas(st)
    ELSE CHOOSE k \in SUBSET Metadatas(st) : Cardinality(k) = nResults

\* A translator that is a function of its request: it answers with the
\* current line tagged by the source sides of the context it was given, the
\* lookahead and the number of existing keywords, and proposes no keyword.
RECURSIVE Froms(_)
Froms(buffer) ==
    IF buffer = <<>> THEN <<>>
    ELSE <<"<">> \o Head(buffer).from \o Froms(Tail(buffer))

FunctionalTranslator(existing, previousLines, currentLine, future) ==
    [translatedLine |-> <<"T">> \o currentLine \o Froms(previousLines)
                        \o <<">">> \o join(future, <<",">>),
     newKeywords |-> <<>>]

\* --------------------------------------------------------------- fetching

RECURSIVE TrimmedNonEmpty(_)
TrimmedNonEmpty(paragraphs) ==
    IF paragraphs = <<>> THEN <<>>
    ELSE (IF trim(Head(paragraphs)) # <<>> THEN <<trim(Head(paragraphs))>>
          ELSE <<>>)
         \o TrimmedNonEmpty(Tail(paragraphs))

\* paragraphs.map(p => p.textContent?.trim()).filter(text => text).join('\n\n')
chapterText(paragraphs) == join(TrimmedNonEmpty(paragraphs), <<LF, LF>>)

\* ---------------------------------------------------------------- settings

FileFaults == {"stateWrite", "stateRead", "finalWrite", "fetch"}
StoreFaults == {"embed", "store", "save"}

Sorcerer == [from |-> <<"S">>, to |-> <<"b">>]
sorcerer == [from |-> <<SP, "s", SP>>, to |-> <<"b">>]
BlankKeyword == [from |-> <<SP>>, to |-> <<"x">>]

\* The texts of <p> elements: three dots, three asterisks, and one of five
\* lines ('a', a blank, an ellipsis line, three spaces, ' b').
Paragraphs ==
    {<<DOT, DOT, DOT>>, <<STAR, STAR, STAR>>,
     <<"a", LF, LF, ELLIPSIS, CR, STAR, LF, SP, SP, SP, CR, LF, SP, "b", CR>>}

Responses ==
    {[translatedLine |-> <<"x">>, newKeywords |-> <<>>],
     [translatedLine |-> <<"y">>, newKeywords |-> <<BlankKeyword, Sorcerer>>]}

\* One chapter, every fault of the file system, any page of up to
\* MaxParagraphs paragraphs, or an empty source file put in place by hand.
MainSetting ==
    [pages |-> SeqsOf(Paragraphs, 1, MaxParagraphs), given |-> {<<>>},
     chapters |-> <<1>>, responses |-> Responses, faults |-> FileFaults]

\* A provider that is down: every translator call fails.  All chapters,
\* state files that can fail to be written or read, pages of up to
\* MaxFailParagraphs translatable paragraphs.
FailSetting ==
    [pages |-> SeqsOf({<<"a">>}, 1, MaxFailParagraphs), given |-> {},
     chapters |-> [c \in ChapterIds |-> c], responses |-> {},
     faults |-> {"stateWrite", "stateRead"}]

\* A translator that is a function of its request and a process that is
\* killed only between two lines: one chapter, no other fault.
ResumeSetting ==
    [pages |-> SeqsOf({<<"a">>, <<"b">>, <<STAR>>}, 1, MaxResumeParagraphs),
     given |-> {}, chapters |-> <<1>>, responses |-> {}, faults |-> {}]

\* The term store on its own: no chapter, every fault of the embedding
\* provider, of the collection and of the backup write.
TermsSetting ==
    [pages |-> {}, given |-> {}, chapters |-> <<>>, responses |-> {},
     faults |-> StoreFaults]

\* The keywords the term store is given, and the backups an edit by hand
\* between two runs can leave: up to MaxSnapshot of them in any order.
Apprentice == [from |-> <<"a">>, to |-> <<"x">>]
SorcererRenamed == [from |-> <<"S">>, to |-> <<"y">>]
TermKeywords == {Sorcerer, sorcerer, SorcererRenamed, Apprentice}
Snapshots ==
    {JsonFile(v) : v \in SeqsOf(TermKeywords, 0, MaxSnapshot)}
      \cup {NoJson, TruncatedJson}

\* A translator that names three keywords for every line, the second one
\* blank, an embedding and a collection.add that can fail: two chapters of up to
\* MaxKeywordParagraphs translatable paragraphs.
KeywordsSetting ==
    [pages |-> SeqsOf({<<"a">>}, 1, MaxKeywordParagraphs), given |-> {},
     chapters |-> <<1, 2>>,
     responses |-> {[translatedLine |-> <<"x">>,
                     newKeywords |-> <<Sorcerer, BlankKeyword, Apprentice>>]},
     faults |-> {"embed", "store"}]

\* A faulty cache: the chapters are cached in the order of the listing.
cacheChapterUrlsUnsorted(listing) == listing

\* allChapters.sort((a, b) => a.chapter - b.chapter): insertion of one
\* chapter number after those that are not greater.
InsertChapter(sorted, c) ==
    LET n == Cardinality({k \in DOMAIN sorted : sorted[k] <= c})
    IN SubSeq(sorted, 1, n) \o <<c>> \o SubSeq(sorted, n + 1, Len(sorted))

RECURSIVE SortChapters(_)
SortChapters(listing) ==
    IF listing = <<>> THEN <<>>
    ELSE InsertChapter(SortChapters(SubSeq(listing, 1, Len(listing) - 1)),
                       listing[Len(listing)])

\* cacheChapterUrls: the chapter numbers of the listing, sorted, are what
\* the cache holds and what main reads from it.
cacheChapterUrls(listing) == SortChapters(listing)

\* A listing of the site with the newest chapter first.
Listing == [k \in 1..NumChapters |-> NumChapters + 1 - k]

\* Every chapter of a listing, pages of no paragraph or of up to
\* MaxChapterParagraphs translatable paragraphs, a fetch that can fail.
ChaptersSetting ==
    [pages |-> SeqsOf({<<"a">>}, 0, MaxChapterParagraphs), given |-> {},
     chapters |-> cacheChapterUrls(Listing),
     responses |-> {[translatedLine |-> <<"x">>, newKeywords |-> <<>>]},
     faults |-> {"fetch"}]

\* One chapter of up to MaxLiveParagraphs translatable paragraphs, a
\* translator that can fail at any call and can answer with a text of two
\* lines, and a final write that can fail; the process is not killed.
LiveSetting ==
    [pages |-> SeqsOf({<<"a">>}, 1, MaxLiveParagraphs), given |-> {},
     chapters |-> <<1>>,
     responses |-> {[translatedLine |-> <<"x">>, newKeywords |-> <<>>],
                    [translatedLine |-> <<"x", LF, "y">>, newKeywords |-> <<>>]},
     faults |-> {"finalWrite"}]

\* The genai module on its own: no pages, no chapters, no translator.
ClientsSetting ==
    [pages |-> {}, given |-> {}, chapters |-> <<>>, responses |-> {},
     faults |-> {}]

\* env names the setting of the run; E is the setting itself.
E == CASE env = "main" -> MainSetting
       [] env = "fail" -> FailSetting
       [] env = "resume" -> ResumeSetting
       [] env = "terms" -> TermsSetting
       [] env = "keywords" -> KeywordsSetting
       [] env = "chapters" -> ChaptersSetting
       [] env = "live" -> LiveSetting
       [] env = "clients" -> ClientsSetting

\* ----------------------------------------------------- rotating clients

\* The genai module keeps one client per API key and, per operation type,
\* the index of the client to hand out next.  A value read from the
\* clientIndices object is a number, or, when the key names a member of
\* Object.prototype that the object has not overwritten, the inherited
\* member; arithmetic on anything but a number gives NaN.
MaxClients == 3
MaxCalls == 3

Num(k) == [kind |-> "number", n |-> k]
NaN == [kind |-> "NaN", n |-> 0]
Inherited == [kind |-> "object", n |-> 0]
Client(k) == [apiKey |-> k]
Undefined == [apiKey |-> 0]

\* The operation types of the callers, the default one, and one that names
\* a member every object inherits.
ObjectPrototype == {"constructor"}
OperationTypes == {"translation", "embedding", "default", "constructor"}

\* key in obj: true for an own property and for an inherited one.
In(key, obj) == key \in DOMAIN obj \/ key \in ObjectPrototype

\* obj[key]
Get(obj, key) ==
    IF key \in DOMAIN obj THEN obj[key] ELSE Inherited

\* obj[key] = v
Set(obj, key, v) ==
    [k \in DOMAIN obj \cup {key} |-> IF k = key THEN v ELSE obj[k]]

\* (index + 1) % length
NextIndex(index, length) ==
    IF index.kind = "number" THEN Num((index.n + 1) % length) ELSE NaN

\* clients[index]
At(clients, index) ==
    IF index.kind = "number" /\ index.n + 1 \in DOMAIN clients
    THEN clients[index.n + 1] ELSE Undefined

\* The module after it was loaded with n API keys.
LoadGenAI(n) ==
    [clients |-> [k \in 1..n |-> Client(k)],
     clientIndices |-> [t \in {"translation", "embedding"} |-> Num(0)],
     calls |-> [t \in OperationTypes |-> 0],
     returned |-> [t \in OperationTypes |-> Undefined]]

\* getNextClient(operationType): the module after the call, `returned`
\* holding what the call returned and `calls` counting the calls.
getNextClient(g, operationType) ==
    LET seen == IF ~In(operationType, g.clientIndices)
                THEN Set(g.clientIndices, operationType, Num(0))
                ELSE g.clientIndices
        index == Get(seen, operationType)
    IN [g EXCEPT
          !.clientIndices =
              Set(seen, operationType, NextIndex(index, Len(g.clients))),
          !.calls[operationType] = @ + 1,
          !.returned[operationType] = At(g.clients, index)]

\* ------------------------------------------------------------ histories

\* The last answer of the translator in an invocation: the line it was for,
\* what it held, and the addKeywordDocument calls made for it.
NoAnswer == [line |-> -1, translatedLine |-> <<>>, newKeywords |-> <<>>,
             tried |-> <<>>]

NoInvocation ==
    [ch |-> 0, hadFinal |-> FALSE, hadState |-> FALSE,
     finalAtEntry |-> NoFile, load |-> "none",
     ckpt |-> <<>>, calls |-> {}, adds |-> FALSE, answer |-> NoAnswer,
     issued |-> FALSE, written |-> FALSE, missed |-> FALSE,
     issuedLines |-> <<>>, finalized |-> FALSE]

InvocationOf(ch, load, ckpt) ==
    [NoInvocation EXCEPT !.ch = ch,
                         !.hadFinal = translatedFile[ch].exists,
                         !.hadState = stateFile[ch].exists,
                         !.finalAtEntry = translatedFile[ch],
                         !.load = load,
                         !.ckpt = ckpt]

\* The last operation on the term store: the collection and the backup it
\* found, the keyword it was given, the batch whose embeddings came back,
\* and whether the store call and the backup write went through.
NoTermOp ==
    [op |-> "none", before |-> {}, snapshot |-> NoJson, keyword |-> <<>>,
     batch |-> <<>>, embedOk |-> <<>>, stored |-> FALSE, saved |-> FALSE]

SyncOp(st, json, o) ==
    [NoTermOp EXCEPT
       !.op = "sync", !.before = st, !.snapshot = json,
       !.batch = IF json.exists /\ json.ok
                 THEN Embedded(keywordsToUpsert(st, json.value), o.embedOk)
                 ELSE <<>>,
       !.embedOk = o.embedOk, !.stored = o.upsert, !.saved = o.save]

AddOp(st, json, keyword, o) ==
    [NoTermOp EXCEPT
       !.op = "add", !.before = st, !.snapshot = json, !.keyword = keyword,
       !.batch = IF o.embed THEN <<keyword>> ELSE <<>>,
       !.stored = o.add, !.saved = o.save]

\* What a run of the program did so far: whether a translator call succeeded,
\* how many lines were given up, the chapters whose final write was rejected.
NewRun == [succeeded |-> FALSE, exhausted |-> 0, failedFinal |-> {}]

NoKill == [valid |-> FALSE, ch |-> 0, cursor |-> 0, buffer |-> <<>>,
           boundary |-> FALSE, fresh |-> FALSE, halted |-> FALSE,
           written |-> FALSE, unfinalized |-> {}]

\* ------------------------------------------------------------------ Init

InitLocals ==
    /\ chapterNumber = 0
    /\ sourceLines = <<>>
    /\ translatedLines = <<>>
    /\ startIndex = 0
    /\ previousLinesBuffer = <<>>
    /\ i = 0
    /\ attempts = 0
    /\ consecutiveFailures = 0
    /\ currentTranslatedLine = <<>>

ResetLocals ==
    /\ chapterNumber' = 0
    /\ sourceLines' = <<>>
    /\ translatedLines' = <<>>
    /\ startIndex' = 0
    /\ previousLinesBuffer' = <<>>
    /\ i' = 0
    /\ attempts' = 0
    /\ consecutiveFailures' = 0
    /\ currentTranslatedLine' = <<>>

\* The state before the first run: no translated or state file, an empty
\* collection and no backup; a source file may have been put in place for
\* a chapter of the list.
InitWith(e) ==
    /\ env = e
    /\ sourceFile \in [ChapterIds -> {NoFile} \cup {TextFile(t) : t \in E.given}]
    /\ \A c \in ChapterIds :
         sourceFile[c].exists => \E k \in DOMAIN E.chapters : E.chapters[k] = c
    /\ translatedFile = [c \in ChapterIds |-> NoFile]
    /\ stateFile = [c \in ChapterIds |-> NoJson]
    /\ store = {}
    /\ keywordsJson = NoJson
    /\ termOp = NoTermOp
    /\ genai \in IF e = "clients"
                 THEN {LoadGenAI(n) : n \in 1..MaxClients}
                 ELSE {LoadGenAI(1)}
    /\ pc = IF e = "terms" THEN "terms"
            ELSE IF e = "clients" THEN "clients" ELSE "main"
    /\ ci = 1
    /\ InitLocals
    /\ restarts = 0
    /\ inv = NoInvocation
    /\ run = NewRun
    /\ lastKill = NoKill

\* ------------------------------------------------------------------ main

\* syncKeywordsFromJson(COLLECTION_NAME) at start-up.
SyncOutcomes(st, json, faults) ==
    LET n == IF json.exists /\ json.ok
             THEN Len(keywordsToUpsert(st, json.value)) ELSE 0
    IN [embedOk : [1..n -> IF "embed" \in faults THEN BOOLEAN ELSE {TRUE}],
        upsert  : IF "store" \in faults /\ n > 0 THEN BOOLEAN ELSE {TRUE},
        save    : IF "save" \in faults /\ n > 0 THEN BOOLEAN ELSE {TRUE}]

MainSync ==
    /\ pc = "main"
    /\ \E o \in SyncOutcomes(store, keywordsJson, E.faults) :
         LET r == syncKeywordsFromJson(store, keywordsJson, o)
         IN /\ store' = r.store
            /\ keywordsJson' = r.json
            /\ termOp' = SyncOp(store, keywordsJson, o)
    /\ pc' = "backup"
    /\ UNCHANGED <<env, genai, files, ci, locals, restarts, history>>

\* fetchAllKeywordsAndSave(COLLECTION_NAME) at start-up, then the chapter
\* cache is read and the loop over the chapters starts.
MainBackup ==
    /\ pc = "backup"
    /\ \E saveOk \in (IF "save" \in E.faults THEN BOOLEAN ELSE {TRUE}) :
         keywordsJson' = fetchAllKeywordsAndSave(store, keywordsJson, saveOk)
    /\ ci' = 1
    /\ pc' = "fetch"
    /\ UNCHANGED <<env, genai, files, store, termOp, locals, restarts, history>>

\* fetchAndProcessChapter when the source file is already there.
FetchExisting ==
    /\ pc = "fetch"
    /\ ci <= Len(E.chapters)
    /\ sourceFile[E.chapters[ci]].exists
    /\ pc' = "access"
    /\ UNCHANGED <<env, genai, files, terms, ci, locals, restarts, history>>

\* fetchAndProcessChapter: the page is fetched, its paragraphs are joined
\* and written; a page without text writes nothing.
FetchNew ==
    /\ pc = "fetch"
    /\ ci <= Len(E.chapters)
    /\ ~sourceFile[E.chapters[ci]].exists
    /\ \E page \in E.pages :
         LET text == chapterText(page)
         IN sourceFile' = IF text = <<>> THEN sourceFile
                          ELSE [sourceFile EXCEPT ![E.chapters[ci]] = TextFile(text)]
    /\ pc' = "access"
    /\ UNCHANGED <<env, genai, translatedFile, stateFile, terms, ci, locals,
                   restarts, history>>

\* fetchAndProcessChapter: the response is not ok, the container is missing
\* or an error is thrown: the chapter is skipped.
FetchFails ==
    /\ pc = "fetch"
    /\ ci <= Len(E.chapters)
    /\ ~sourceFile[E.chapters[ci]].exists
    /\ "fetch" \in E.faults
    /\ pc' = "access"
    /\ UNCHANGED <<env, genai, files, terms, ci, locals, restarts, history>>

\* fs.access(sourceFilePath) succeeds: translateChapter is called.
AccessSourceOk ==
    /\ pc = "access"
    /\ sourceFile[E.chapters[ci]].exists
    /\ chapterNumber' = E.chapters[ci]
    /\ pc' = "translateChapter"
    /\ UNCHANGED <<env, genai, files, terms, ci, sourceLines, translatedLines,
                   startIndex, previousLinesBuffer, i, attempts,
                   consecutiveFailures, currentTranslatedLine, restarts,
                   history>>

\* A faulty loop of main: a chapter without source file ends the run.
AccessSourceMissingExits ==
    /\ pc = "access"
    /\ ~sourceFile[E.chapters[ci]].exists
    /\ pc' = "exited"
    /\ UNCHANGED <<env, genai, files, terms, ci, locals, restarts, history>>

\* fs.access(sourceFilePath) fails with ENOENT: the chapter is skipped.
AccessSourceMissing ==
    /\ pc = "access"
    /\ ~sourceFile[E.chapters[ci]].exists
    /\ ci' = ci + 1
    /\ pc' = "fetch"
    /\ UNCHANGED <<env, genai, files, terms, locals, restarts, history>>

\* The loop over the chapters is over: main returns.
MainFinished ==
    /\ pc = "fetch"
    /\ ci > Len(E.chapters)
    /\ pc' = "done"
    /\ UNCHANGED <<env, genai, files, terms, ci, locals, restarts, history>>

\* translateChapter returns to the loop of main.
ReturnToMain ==
    /\ ci' = ci + 1
    /\ pc' = "fetch"

\* ------------------------------------------------------ translateChapter

\* A faulty entry guard: it looks for the state file, not the final file.
alreadyTranslatedByState(ch) == stateFile[ch].exists

\* fs.access(translatedFilePath) succeeds.
alreadyTranslated(ch) == translatedFile[ch].exists

\* The lines of the state file the entry guard is about to unlink (the code
\* does not read them).
FoundLines(ch) ==
    IF stateFile[ch].exists /\ stateFile[ch].ok THEN stateFile[ch].value ELSE <<>>

\* A faulty entry guard: it returns without unlinking the state file.
TranslateChapterSkipKeepsState ==
    /\ pc = "translateChapter"
    /\ alreadyTranslated(chapterNumber)
    /\ inv' = InvocationOf(chapterNumber, "none", <<>>)
    /\ ReturnToMain
    /\ UNCHANGED <<env, genai, files, terms, locals, restarts, run, lastKill>>

\* Entry guard: the final file exists; the state file is unlinked (ENOENT
\* is ignored) and the function returns.
TranslateChapterSkip ==
    /\ pc = "translateChapter"
    /\ alreadyTranslated(chapterNumber)
    /\ inv' = InvocationOf(chapterNumber, "none", FoundLines(chapterNumber))
    /\ stateFile' = [stateFile EXCEPT ![chapterNumber] = NoJson]
    /\ ReturnToMain
    /\ UNCHANGED <<env, genai, sourceFile, translatedFile, terms, locals, restarts,
                   run, lastKill>>

\* A faulty state load: the parsed lines survive a failed read.
LoadedLinesKeptOnError(outcome, ch) == stateFile[ch].value

\* What the catch of the state read leaves: on "ok" the parsed lines, a
\* cursor at their length and the rebuilt buffer; on any error a fresh start.
LoadedLines(outcome, ch) == IF outcome = "ok" THEN stateFile[ch].value ELSE <<>>

\* A faulty resume: the cursor goes back to the first line.
resumeCursorZero(loaded) == 0

\* startIndex = translatedLines.length
resumeCursor(loaded) == Len(loaded)

LoadedBuffer(outcome, lines, loaded) ==
    IF outcome = "ok" THEN RebuildBuffer(lines, loaded) ELSE <<>>

\* The source is read and split, the state file is read and parsed, the
\* buffer is rebuilt: everything up to the head of the loop over the lines.
TranslateChapterLoad ==
    /\ pc = "translateChapter"
    /\ ~alreadyTranslated(chapterNumber)
    /\ LET ch == chapterNumber
           lines == split(sourceFile[ch].data)
       IN \E outcome \in ReadJsonOutcomes(stateFile[ch], "stateRead" \in E.faults) :
            LET loaded == LoadedLines(outcome, ch)
            IN /\ inv' = InvocationOf(ch, outcome, loaded)
               /\ IF ~sourceFile[ch].exists
                  THEN \* readFile rejects: logged, the chapter is skipped
                       /\ ReturnToMain
                       /\ UNCHANGED <<files, locals>>
                  ELSE IF Len(lines) = 0
                  THEN /\ translatedFile' = [translatedFile EXCEPT ![ch] = TextFile(<<>>)]
                       /\ ReturnToMain
                       /\ UNCHANGED <<sourceFile, stateFile, locals>>
                  ELSE /\ sourceLines' = lines
                       /\ translatedLines' = loaded
                       /\ startIndex' = resumeCursor(loaded)
                       /\ previousLinesBuffer' = LoadedBuffer(outcome, lines, loaded)
                       /\ i' = resumeCursor(loaded)
                       /\ attempts' = 0
                       /\ consecutiveFailures' = 0
                       /\ currentTranslatedLine' = <<>>
                       /\ pc' = "loop"
                       /\ UNCHANGED <<files, ci, chapterNumber>>
    /\ UNCHANGED <<env, genai, terms, restarts, run, lastKill>>

\* A faulty copy: the matched line is pushed trimmed.
PassThroughTrimmed(originalLine) ==
    IF skipRegex(originalLine) THEN trim(originalLine) ELSE <<>>

\* What a line that is not sent to the translator becomes: the line itself
\* when skipRegex matches it, the empty string when it trims to nothing.
PassThrough(originalLine) ==
    IF skipRegex(originalLine) THEN originalLine ELSE <<>>

NeedsTranslation(originalLine) ==
    ~skipRegex(originalLine) /\ trim(originalLine) # <<>>

\* A faulty pass-through: the line enters the buffer as its own translation.
LinePassThroughIntoWindow ==
    /\ pc = "loop"
    /\ i < Len(sourceLines)
    /\ ~NeedsTranslation(sourceLines[i + 1])
    /\ currentTranslatedLine' = PassThrough(sourceLines[i + 1])
    /\ previousLinesBuffer' =
         PushBuffer(previousLinesBuffer,
                    [from |-> sourceLines[i + 1], to |-> sourceLines[i + 1]])
    /\ pc' = "push"
    /\ UNCHANGED <<env, genai, files, terms, ci, chapterNumber, sourceLines,
                   translatedLines, startIndex, i,
                   attempts, consecutiveFailures, restarts, history>>

\* A faulty pass-through: the line resets the failure counter.
LinePassThroughResetsCounter ==
    /\ pc = "loop"
    /\ i < Len(sourceLines)
    /\ ~NeedsTranslation(sourceLines[i + 1])
    /\ currentTranslatedLine' = PassThrough(sourceLines[i + 1])
    /\ consecutiveFailures' = 0
    /\ pc' = "push"
    /\ UNCHANGED <<env, genai, files, terms, ci, chapterNumber, sourceLines,
                   translatedLines, startIndex, previousLinesBuffer, i,
                   attempts, restarts, history>>

\* Head of one iteration: a line matched by skipRegex or blank after trim
\* gets its output at once.
LinePassThrough ==
    /\ pc = "loop"
    /\ i < Len(sourceLines)
    /\ ~NeedsTranslation(sourceLines[i + 1])
    /\ currentTranslatedLine' = PassThrough(sourceLines[i + 1])
    /\ pc' = "push"
    /\ UNCHANGED <<env, genai, files, terms, ci, chapterNumber, sourceLines,
                   translatedLines, startIndex, previousLinesBuffer, i,
                   attempts, consecutiveFailures, restarts, history>>

\* Head of one iteration: any other line enters the retry loop.
LineTranslate ==
    /\ pc = "loop"
    /\ i < Len(sourceLines)
    /\ NeedsTranslation(sourceLines[i + 1])
    /\ currentTranslatedLine' = <<>>
    /\ attempts' = 0
    /\ pc' = "attempt"
    /\ UNCHANGED <<env, genai, files, terms, ci, chapterNumber, sourceLines,
                   translatedLines, startIndex, previousLinesBuffer, i,
                   consecutiveFailures, restarts, history>>

\* One attempt that succeeds with `result`: the new keywords are added
\* (outs: the outcome of each add), the pair enters the buffer, the failure
\* counter is reset.
AttemptSucceeds(result, outs) ==
    LET currentLine == trim(sourceLines[i + 1])
        added == AddNewKeywords(store, keywordsJson, result.newKeywords, outs)
    IN /\ currentTranslatedLine' = result.translatedLine
       /\ store' = added.store
       /\ keywordsJson' = added.json
       /\ previousLinesBuffer' =
            PushBuffer(previousLinesBuffer,
                       [from |-> currentLine, to |-> result.translatedLine])
       /\ consecutiveFailures' = 0
       /\ pc' = "push"
       /\ inv' = [inv EXCEPT !.calls = @ \cup {i},
                             !.adds = @ \/ added.calls > 0,
                             !.answer = [line |-> i,
                                         translatedLine |-> result.translatedLine,
                                         newKeywords |-> result.newKeywords,
                                         tried |-> added.tried]]
       /\ run' = [run EXCEPT !.succeeded = TRUE]
       /\ UNCHANGED <<env, genai, files, termOp, ci, chapterNumber, sourceLines,
                      translatedLines, startIndex, i, attempts, restarts,
                      lastKill>>

\* generateTranslatedLine resolves with one of the responses of the provider.
TranslateOk ==
    /\ pc = "attempt"
    /\ \E result \in E.responses :
         \E outs \in [1..Len(result.newKeywords) -> AddOutcomes(E.faults)] :
           AttemptSucceeds(result, outs)

\* generateTranslatedLine resolves with the answer of a translator that is
\* a function of the request.
TranslateFunctional ==
    /\ pc = "attempt"
    /\ LET currentLine == trim(sourceLines[i + 1])
           existing == searchKeyword(store, currentLine, 20)
       IN AttemptSucceeds(
              FunctionalTranslator(existing, previousLinesBuffer, currentLine,
                                   futureLines(sourceLines, i)),
              <<>>)

\* A faulty kill-switch: the fifth consecutive line given up is logged and
\* the loop goes on.
TranslateFailsNeverExits ==
    /\ pc = "attempt"
    /\ attempts' = attempts + 1
    /\ IF attempts + 1 >= MAX_RETRIES
       THEN /\ currentTranslatedLine' = NotTranslated(trim(sourceLines[i + 1]))
            /\ consecutiveFailures' = consecutiveFailures + 1
            /\ pc' = "push"
            /\ run' = [run EXCEPT !.exhausted = @ + 1]
       ELSE /\ pc' = "attempt"
            /\ UNCHANGED <<currentTranslatedLine, consecutiveFailures, run>>
    /\ inv' = [inv EXCEPT !.calls = @ \cup {i}]
    /\ UNCHANGED <<env, genai, files, terms, ci, chapterNumber, sourceLines,
                   translatedLines, startIndex, previousLinesBuffer, i,
                   restarts, lastKill>>

\* A faulty retry loop: it gives up after MAX_RETRIES + 1 failures.
TranslateFailsOneTooMany ==
    /\ pc = "attempt"
    /\ attempts' = attempts + 1
    /\ IF attempts + 1 > MAX_RETRIES
       THEN /\ currentTranslatedLine' = NotTranslated(trim(sourceLines[i + 1]))
            /\ consecutiveFailures' = consecutiveFailures + 1
            /\ pc' = IF consecutiveFailures + 1 >= FAILURE_LIMIT
                     THEN "exited" ELSE "push"
            /\ run' = [run EXCEPT !.exhausted = @ + 1]
       ELSE /\ pc' = "attempt"
            /\ UNCHANGED <<currentTranslatedLine, consecutiveFailures, run>>
    /\ inv' = [inv EXCEPT !.calls = @ \cup {i}]
    /\ UNCHANGED <<env, genai, files, terms, ci, chapterNumber, sourceLines,
                   translatedLines, startIndex, previousLinesBuffer, i,
                   restarts, lastKill>>

\* A faulty counter: every failed attempt counts, not every line given up.
TranslateFailsCountsAttempts ==
    /\ pc = "attempt"
    /\ attempts' = attempts + 1
    /\ consecutiveFailures' = consecutiveFailures + 1
    /\ IF attempts + 1 >= MAX_RETRIES
       THEN /\ currentTranslatedLine' = NotTranslated(trim(sourceLines[i + 1]))
            /\ pc' = IF consecutiveFailures + 1 >= FAILURE_LIMIT
                     THEN "exited" ELSE "push"
            /\ run' = [run EXCEPT !.exhausted = @ + 1]
       ELSE /\ pc' = "attempt"
            /\ UNCHANGED <<currentTranslatedLine, run>>
    /\ inv' = [inv EXCEPT !.calls = @ \cup {i}]
    /\ UNCHANGED <<env, genai, files, terms, ci, chapterNumber, sourceLines,
                   translatedLines, startIndex, previousLinesBuffer, i,
                   restarts, lastKill>>

\* A faulty catch: the line given up enters the buffer with its mark.
TranslateFailsIntoWindow ==
    /\ pc = "attempt"
    /\ attempts' = attempts + 1
    /\ IF attempts + 1 >= MAX_RETRIES
       THEN /\ currentTranslatedLine' = NotTranslated(trim(sourceLines[i + 1]))
            /\ previousLinesBuffer' =
                 PushBuffer(previousLinesBuffer,
                            [from |-> trim(sourceLines[i + 1]),
                             to |-> NotTranslated(trim(sourceLines[i + 1]))])
            /\ consecutiveFailures' = consecutiveFailures + 1
            /\ pc' = IF consecutiveFailures + 1 >= FAILURE_LIMIT
                     THEN "exited" ELSE "push"
            /\ run' = [run EXCEPT !.exhausted = @ + 1]
       ELSE /\ pc' = "attempt"
            /\ UNCHANGED <<currentTranslatedLine, consecutiveFailures, run,
                           previousLinesBuffer>>
    /\ inv' = [inv EXCEPT !.calls = @ \cup {i}]
    /\ UNCHANGED <<env, genai, files, terms, ci, chapterNumber, sourceLines,
                   translatedLines, startIndex, i, restarts, lastKill>>

\* A faulty kill-switch: the sentinel of the fifth line is appended and
\* written to the state file before the process leaves.
TranslateFailsRecordsLast ==
    /\ pc = "attempt"
    /\ attempts' = attempts + 1
    /\ IF attempts + 1 >= MAX_RETRIES
       THEN /\ currentTranslatedLine' = NotTranslated(trim(sourceLines[i + 1]))
            /\ consecutiveFailures' = consecutiveFailures + 1
            /\ pc' = IF consecutiveFailures + 1 >= FAILURE_LIMIT
                     THEN "exited" ELSE "push"
            /\ run' = [run EXCEPT !.exhausted = @ + 1]
            /\ IF consecutiveFailures + 1 >= FAILURE_LIMIT
               THEN LET pushed == Append(translatedLines,
                                         NotTranslated(trim(sourceLines[i + 1])))
                    IN /\ translatedLines' = pushed
                       /\ stateFile' = [stateFile EXCEPT ![chapterNumber] =
                                            JsonFile(pushed)]
                       /\ inv' = [inv EXCEPT !.calls = @ \cup {i},
                                             !.issuedLines = pushed]
               ELSE /\ inv' = [inv EXCEPT !.calls = @ \cup {i}]
                    /\ UNCHANGED <<translatedLines, stateFile>>
       ELSE /\ pc' = "attempt"
            /\ inv' = [inv EXCEPT !.calls = @ \cup {i}]
            /\ UNCHANGED <<currentTranslatedLine, consecutiveFailures, run,
                           translatedLines, stateFile>>
    /\ UNCHANGED <<env, genai, sourceFile, translatedFile, terms, ci,
                   chapterNumber, sourceLines, startIndex, previousLinesBuffer,
                   i, restarts, lastKill>>

\* generateTranslatedLine rejects (provider error, empty or malformed
\* response): retry, or give up on the line after MAX_RETRIES attempts and
\* leave the process on the fifth line given up in a row.
TranslateFails ==
    /\ pc = "attempt"
    /\ attempts' = attempts + 1
    /\ IF attempts + 1 >= MAX_RETRIES
       THEN /\ currentTranslatedLine' = NotTranslated(trim(sourceLines[i + 1]))
            /\ consecutiveFailures' = consecutiveFailures + 1
            /\ pc' = IF consecutiveFailures + 1 >= FAILURE_LIMIT
                     THEN "exited" ELSE "push"
            /\ run' = [run EXCEPT !.exhausted = @ + 1]
       ELSE /\ pc' = "attempt"
            /\ UNCHANGED <<currentTranslatedLine, consecutiveFailures, run>>
    /\ inv' = [inv EXCEPT !.calls = @ \cup {i}]
    /\ UNCHANGED <<env, genai, files, terms, ci, chapterNumber, sourceLines,
                   translatedLines, startIndex, previousLinesBuffer, i,
                   restarts, lastKill>>

\* A faulty state write: its rejection is not caught in the loop and ends
\* the invocation in the outer catch.
PushAndSaveAbortsOnFailure ==
    /\ pc = "push"
    /\ LET pushed == Append(translatedLines, currentTranslatedLine)
       IN /\ translatedLines' = pushed
          /\ \E writeOk \in (IF "stateWrite" \in E.faults THEN BOOLEAN ELSE {TRUE}) :
               /\ inv' = [inv EXCEPT !.issued = TRUE, !.written = writeOk,
                                     !.missed = @ \/ ~writeOk,
                                     !.issuedLines = pushed]
               /\ IF writeOk
                  THEN /\ stateFile' = [stateFile EXCEPT ![chapterNumber] =
                                            JsonFile(pushed)]
                       /\ i' = i + 1
                       /\ pc' = "loop"
                       /\ UNCHANGED ci
                  ELSE /\ ci' = ci + 1
                       /\ pc' = "fetch"
                       /\ UNCHANGED <<stateFile, i>>
    /\ UNCHANGED <<env, genai, sourceFile, translatedFile, terms, chapterNumber,
                   sourceLines, startIndex, previousLinesBuffer, attempts,
                   consecutiveFailures, currentTranslatedLine, restarts, run,
                   lastKill>>

\* A faulty order: the state file is written before the push, one line short.
PushAndSaveBeforePush ==
    /\ pc = "push"
    /\ \E writeOk \in (IF "stateWrite" \in E.faults THEN BOOLEAN ELSE {TRUE}) :
         /\ stateFile' = IF writeOk
                         THEN [stateFile EXCEPT ![chapterNumber] = JsonFile(translatedLines)]
                         ELSE stateFile
         /\ inv' = [inv EXCEPT !.issued = TRUE, !.written = writeOk,
                                     !.missed = @ \/ ~writeOk,
                               !.issuedLines = translatedLines]
    /\ translatedLines' = Append(translatedLines, currentTranslatedLine)
    /\ i' = i + 1
    /\ pc' = "loop"
    /\ UNCHANGED <<env, genai, sourceFile, translatedFile, terms, ci, chapterNumber,
                   sourceLines, startIndex, previousLinesBuffer, attempts,
                   consecutiveFailures, currentTranslatedLine, restarts, run,
                   lastKill>>

\* A faulty state write: the new line is added to what the file holds,
\* the lines of rejected writes are never written.
PushAndSaveAppendsToFile ==
    /\ pc = "push"
    /\ LET pushed == Append(translatedLines, currentTranslatedLine)
           held == IF stateFile[chapterNumber].exists /\ stateFile[chapterNumber].ok
                   THEN stateFile[chapterNumber].value ELSE <<>>
       IN /\ translatedLines' = pushed
          /\ \E writeOk \in (IF "stateWrite" \in E.faults THEN BOOLEAN ELSE {TRUE}) :
               /\ stateFile' = IF writeOk
                               THEN [stateFile EXCEPT ![chapterNumber] =
                                       JsonFile(Append(held, currentTranslatedLine))]
                               ELSE stateFile
               /\ inv' = [inv EXCEPT !.issued = TRUE, !.written = writeOk,
                                     !.missed = @ \/ ~writeOk,
                                     !.issuedLines = pushed]
    /\ i' = i + 1
    /\ pc' = "loop"
    /\ UNCHANGED <<env, genai, sourceFile, translatedFile, terms, ci, chapterNumber,
                   sourceLines, startIndex, previousLinesBuffer, attempts,
                   consecutiveFailures, currentTranslatedLine, restarts, run,
                   lastKill>>

\* translatedLines.push(currentTranslatedLine), then the state file is
\* written; a failed write is logged and the loop goes on.
PushAndSave ==
    /\ pc = "push"
    /\ LET pushed == Append(translatedLines, currentTranslatedLine)
       IN /\ translatedLines' = pushed
          /\ \E writeOk \in (IF "stateWrite" \in E.faults THEN BOOLEAN ELSE {TRUE}) :
               /\ stateFile' = IF writeOk
                               THEN [stateFile EXCEPT ![chapterNumber] = JsonFile(pushed)]
                               ELSE stateFile
               /\ inv' = [inv EXCEPT !.issued = TRUE, !.written = writeOk,
                                     !.missed = @ \/ ~writeOk,
                                     !.issuedLines = pushed]
    /\ i' = i + 1
    /\ pc' = "loop"
    /\ UNCHANGED <<env, genai, sourceFile, translatedFile, terms, ci, chapterNumber,
                   sourceLines, startIndex, previousLinesBuffer, attempts,
                   consecutiveFailures, currentTranslatedLine, restarts, run,
                   lastKill>>

\* What fs.writeFile can leave of a file when it does not get to the end
\* (the process is killed, or the write is rejected): nothing, or all but
\* the end.
CutShort(data) ==
    {<<>>} \cup (IF data = <<>> THEN {} ELSE {SubSeq(data, 1, Len(data) - 1)})

\* After the loop: the lines are joined and written as the final file.
Finalize ==
    /\ pc = "loop"
    /\ i >= Len(sourceLines)
    /\ translatedFile' = [translatedFile EXCEPT ![chapterNumber] =
                              TextFile(join(translatedLines, <<LF>>))]
    /\ inv' = [inv EXCEPT !.finalized = TRUE]
    /\ pc' = "unlink"
    /\ UNCHANGED <<env, genai, sourceFile, stateFile, terms, ci, locals, restarts,
                   run, lastKill>>

\* A faulty outer catch: it removes the state file.
FinalizeFailsDropsState ==
    /\ pc = "loop"
    /\ i >= Len(sourceLines)
    /\ "finalWrite" \in E.faults
    /\ stateFile' = [stateFile EXCEPT ![chapterNumber] = NoJson]
    /\ run' = [run EXCEPT !.failedFinal = @ \cup {chapterNumber}]
    /\ ReturnToMain
    /\ UNCHANGED <<env, genai, sourceFile, translatedFile, terms, locals, restarts,
                   inv, lastKill>>

\* The write of the final file rejects: caught by the outer catch, logged,
\* translateChapter returns with the state file left in place.
FinalizeFails ==
    /\ pc = "loop"
    /\ i >= Len(sourceLines)
    /\ "finalWrite" \in E.faults
    /\ run' = [run EXCEPT !.failedFinal = @ \cup {chapterNumber}]
    /\ ReturnToMain
    /\ UNCHANGED <<env, genai, files, terms, locals, restarts, inv, lastKill>>

\* The write of the final file rejects after fs.writeFile has opened the
\* file (a full disk, a read error of the device): the file is there, cut
\* short, and translateChapter returns through the outer catch.
FinalizeFailsPartway ==
    /\ pc = "loop"
    /\ i >= Len(sourceLines)
    /\ "finalWrite" \in E.faults
    /\ \E data \in CutShort(join(translatedLines, <<LF>>)) :
         translatedFile' = [translatedFile EXCEPT ![chapterNumber] = TextFile(data)]
    /\ run' = [run EXCEPT !.failedFinal = @ \cup {chapterNumber}]
    /\ ReturnToMain
    /\ UNCHANGED <<env, genai, sourceFile, stateFile, terms, locals, restarts,
                   inv, lastKill>>

\* fs.unlink(stateFilePath); ENOENT is not an error.
UnlinkState ==
    /\ pc = "unlink"
    /\ stateFile' = [stateFile EXCEPT ![chapterNumber] = NoJson]
    /\ ReturnToMain
    /\ UNCHANGED <<env, genai, sourceFile, translatedFile, terms, locals, restarts,
                   history>>

\* ------------------------------------------------------- kill and restart

Running == {"main", "backup", "fetch", "access", "translateChapter", "loop",
            "attempt", "push", "unlink"}

\* The process is gone: what it held in memory is lost, the files and the
\* collection stay; it is started again from main.
StartAgain ==
    /\ restarts < MaxRestarts
    /\ restarts' = restarts + 1
    /\ ResetLocals
    /\ ci' = 1
    /\ pc' = "main"
    /\ inv' = NoInvocation
    /\ run' = NewRun

\* What a run killed between two lines held: its chapter, cursor and buffer,
\* and whether it had itself started the chapter from line 0.
KillRecord ==
    [valid |-> TRUE, ch |-> chapterNumber, cursor |-> i,
     buffer |-> previousLinesBuffer, boundary |-> pc = "loop",
     fresh |-> restarts = 0 /\ startIndex = 0, halted |-> FALSE,
     written |-> FALSE, unfinalized |-> {}]

\* The record of a run that ended by itself, with the chapters whose final
\* write it saw rejected.
EndOfRun(record) == [record EXCEPT !.unfinalized = run.failedFinal]

\* What a process that left on its fifth line given up in a row held: its
\* chapter, the line it was at, and whether its last state write went through.
HaltRecord ==
    [NoKill EXCEPT !.ch = chapterNumber, !.cursor = i, !.halted = TRUE,
                   !.written = inv.written]

\* The process is killed between two lines (after the state write of one,
\* before the next is looked at) and started again.
KillAtLineBoundary ==
    /\ pc = "loop"
    /\ lastKill' = KillRecord
    /\ StartAgain
    /\ UNCHANGED <<env, genai, files, terms>>

\* The process is killed at any point and started again.
Kill ==
    /\ pc \in Running
    /\ lastKill' = NoKill
    /\ StartAgain
    /\ UNCHANGED <<env, genai, files, terms>>

\* The process is killed while fs.writeFile writes the state file: the file
\* is left truncated.
KillDuringStateWrite ==
    /\ pc = "push"
    /\ stateFile' = [stateFile EXCEPT ![chapterNumber] = TruncatedJson]
    /\ lastKill' = NoKill
    /\ StartAgain
    /\ UNCHANGED <<env, genai, sourceFile, translatedFile, terms>>

\* The process is killed while fs.writeFile writes the final file: the file
\* is there, cut short, and the state file has not been unlinked.
KillDuringFinalWrite ==
    /\ pc = "loop"
    /\ i >= Len(sourceLines)
    /\ \E data \in CutShort(join(translatedLines, <<LF>>)) :
         translatedFile' = [translatedFile EXCEPT ![chapterNumber] = TextFile(data)]
    /\ lastKill' = NoKill
    /\ StartAgain
    /\ UNCHANGED <<env, genai, sourceFile, stateFile, terms>>

\* The program is run again after it ended (exit code 0 or 1).
RunAgain ==
    /\ pc \in {"done", "exited"}
    /\ lastKill' = EndOfRun(IF pc = "exited" THEN HaltRecord ELSE NoKill)
    /\ StartAgain
    /\ UNCHANGED <<env, genai, files, terms>>

\* ------------------------------------------------------- specifications

Init == InitWith("main")

Next ==
    \/ MainSync \/ MainBackup
    \/ FetchExisting \/ FetchNew \/ FetchFails
    \/ AccessSourceOk \/ AccessSourceMissing \/ MainFinished
    \/ TranslateChapterSkip \/ TranslateChapterLoad
    \/ LinePassThrough \/ LineTranslate
    \/ TranslateOk \/ TranslateFails
    \/ PushAndSave \/ Finalize \/ FinalizeFails \/ FinalizeFailsPartway
    \/ UnlinkState
    \/ Kill \/ KillDuringStateWrite \/ KillDuringFinalWrite \/ RunAgain

Spec == Init /\ [][Next]_vars

InitFail == InitWith("fail")

NextFail ==
    \/ MainSync \/ MainBackup
    \/ FetchExisting \/ FetchNew
    \/ AccessSourceOk \/ MainFinished
    \/ TranslateChapterSkip \/ TranslateChapterLoad
    \/ LinePassThrough \/ LineTranslate
    \/ TranslateFails
    \/ PushAndSave \/ Finalize \/ UnlinkState
    \/ RunAgain

SpecFail == InitFail /\ [][NextFail]_vars

InitResume == InitWith("resume")

NextResume ==
    \/ MainSync \/ MainBackup
    \/ FetchExisting \/ FetchNew
    \/ AccessSourceOk \/ MainFinished
    \/ TranslateChapterLoad
    \/ LinePassThrough \/ LineTranslate
    \/ TranslateFunctional
    \/ PushAndSave \/ Finalize \/ UnlinkState
    \/ KillAtLineBoundary

SpecResume == InitResume /\ [][NextResume]_vars

InitKeywords == InitWith("keywords")
NextKeywords ==
    \/ MainSync \/ MainBackup
    \/ FetchNew
    \/ AccessSourceOk \/ MainFinished
    \/ TranslateChapterLoad
    \/ LinePassThrough \/ LineTranslate \/ TranslateOk \/ TranslateFails
    \/ PushAndSave \/ Finalize \/ UnlinkState
SpecKeywords == InitKeywords /\ [][NextKeywords]_vars

InitChapters == InitWith("chapters")
NextChapters ==
    \/ MainSync \/ MainBackup
    \/ FetchExisting \/ FetchNew \/ FetchFails
    \/ AccessSourceOk \/ AccessSourceMissing \/ MainFinished
    \/ TranslateChapterSkip \/ TranslateChapterLoad
    \/ LinePassThrough \/ LineTranslate \/ TranslateOk \/ TranslateFails
    \/ PushAndSave \/ Finalize \/ UnlinkState \/ Kill \/ RunAgain
SpecChapters == InitChapters /\ [][NextChapters]_vars

\* One run of a process that is not killed: every await of the one flow of
\* main settles, so a step is taken whenever one can be.
InitLive == InitWith("live")
NextLive ==
    \/ MainSync \/ MainBackup
    \/ FetchNew
    \/ AccessSourceOk \/ MainFinished
    \/ TranslateChapterLoad
    \/ LinePassThrough \/ LineTranslate \/ TranslateOk \/ TranslateFails
    \/ PushAndSave \/ Finalize \/ FinalizeFails \/ UnlinkState
SpecLive == InitLive /\ [][NextLive]_vars /\ WF_vars(NextLive)

\* ----------------------------------------- the genai module on its own

\* A caller asks for the next client of an operation type.
GetNextClient ==
    /\ pc = "clients"
    /\ \E operationType \in OperationTypes :
         /\ genai.calls[operationType] < MaxCalls
         /\ genai' = getNextClient(genai, operationType)
    /\ UNCHANGED <<env, files, terms, pc, ci, locals, restarts, history>>

InitClients == InitWith("clients")
NextClients == GetNextClient
SpecClients == InitClients /\ [][NextClients]_vars

\* ------------------------------------------- the term store on its own

\* addKeywordDocument(COLLECTION_NAME, keyword), a rejection included.
TermsAdd ==
    /\ pc = "terms"
    /\ \E keyword \in TermKeywords, o \in AddOutcomes(E.faults) :
         LET r == addKeywordDocument(store, keywordsJson, keyword, o)
         IN /\ store' = r.store
            /\ keywordsJson' = r.json
            /\ termOp' = AddOp(store, keywordsJson, keyword, o)
    /\ UNCHANGED <<env, genai, files, pc, ci, locals, restarts, history>>

\* syncKeywordsFromJson(COLLECTION_NAME).
TermsSync ==
    /\ pc = "terms"
    /\ \E o \in SyncOutcomes(store, keywordsJson, E.faults) :
         LET r == syncKeywordsFromJson(store, keywordsJson, o)
         IN /\ store' = r.store
            /\ keywordsJson' = r.json
            /\ termOp' = SyncOp(store, keywordsJson, o)
    /\ UNCHANGED <<env, genai, files, pc, ci, locals, restarts, history>>

\* fetchAllKeywordsAndSave(COLLECTION_NAME).
TermsBackup ==
    /\ pc = "terms"
    /\ \E saveOk \in (IF "save" \in E.faults THEN BOOLEAN ELSE {TRUE}) :
         /\ keywordsJson' = fetchAllKeywordsAndSave(store, keywordsJson, saveOk)
         /\ termOp' = [NoTermOp EXCEPT !.op = "backup", !.before = store,
                                       !.snapshot = keywordsJson,
                                       !.saved = saveOk]
    /\ UNCHANGED <<env, genai, files, store, pc, ci, locals, restarts, history>>

\* The backup file is edited, removed or cut short between two operations:
\* it is what the next syncKeywordsFromJson reads.
TermsEditSnapshot ==
    /\ pc = "terms"
    /\ termOp.op # "edit"
    /\ keywordsJson' \in Snapshots \ {keywordsJson}
    /\ termOp' = [NoTermOp EXCEPT !.op = "edit"]
    /\ UNCHANGED <<env, genai, files, store, pc, ci, locals, restarts, history>>

InitTerms == InitWith("terms")
NextTerms == TermsAdd \/ TermsSync \/ TermsBackup \/ TermsEditSnapshot
SpecTerms == InitTerms /\ [][NextTerms]_vars

\* ----------------------------------------------------------------- claims

\* What one uninterrupted pass over `lines` appends to its output when every
\* translator call is answered by the functional translator.
RECURSIVE OnePassFrom(_, _, _, _)
OnePassFrom(lines, idx, out, buffer) ==
    IF idx >= Len(lines) THEN out
    ELSE IF ~NeedsTranslation(lines[idx + 1])
         THEN OnePassFrom(lines, idx + 1,
                          Append(out, PassThrough(lines[idx + 1])), buffer)
    ELSE LET currentLine == trim(lines[idx + 1])
             result == FunctionalTranslator({}, buffer, currentLine,
                                            futureLines(lines, idx))
         IN OnePassFrom(lines, idx + 1, Append(out, result.translatedLine),
                        PushBuffer(buffer, [from |-> currentLine,
                                            to |-> result.translatedLine]))

OnePassOutput(content) == join(OnePassFrom(split(content), 0, <<>>, <<>>), <<LF>>)

\* The reference above is the model's own uninterrupted run: a final file
\* written by a process that was never killed is the one-pass output.
OnePassIsTheUninterruptedRun ==
    \A ch \in ChapterIds :
        restarts = 0 /\ translatedFile[ch].exists
        => translatedFile[ch].data = OnePassOutput(sourceFile[ch].data)

\* C1 (resumability): with a translator that is a function of its request,
\* the final file of a chapter is the output of one uninterrupted pass over
\* its source, also when the process was killed after some line had been
\* checkpointed and translateChapter resumed from the state file.
C1_ResumedOutputEqualsOnePass ==
    \A ch \in ChapterIds :
        translatedFile[ch].exists
        => translatedFile[ch].data = OnePassOutput(sourceFile[ch].data)

\* translateChapter has just resumed from the state file that an
\* uninterrupted run left when it was killed between two lines.
ResumedAtKillCursor ==
    /\ pc = "loop"
    /\ inv.load = "ok"
    /\ i = startIndex
    /\ lastKill.valid /\ lastKill.boundary /\ lastKill.fresh
    /\ lastKill.ch = chapterNumber
    /\ lastKill.cursor = startIndex

\* C2 (context determinism): the buffer rebuilt on resuming at cursor k is
\* the buffer the uninterrupted run held just before it processed line k.
C2_RebuiltBufferEqualsLive ==
    ResumedAtKillCursor => previousLinesBuffer = lastKill.buffer

\* translateChapter is past its entry guard and holds the chapter's lines.
InChapter == pc \in {"loop", "attempt", "push", "unlink", "exited"}

DecorationOnly(line) ==
    line # <<>> /\ \A k \in 1..Len(line) : line[k] \in {SP, ELLIPSIS, CR, STAR}

\* The pattern as the claim has it: its examples include a line of three dots.
ClaimedDecoration(line) == DecorationOnly(line) \/ line = <<DOT, DOT, DOT>>

AppendedHere ==
    {p \in (startIndex + 1)..Len(translatedLines) : NeedsTranslation(sourceLines[p])}

\* C5 (failure escalation, as amended): when every translator call fails,
\* the process halts exactly when one translateChapter invocation gives up
\* on its fifth translatable line; the four lines it gave up on before are
\* in translatedLines as 'NOT TRANSLATED: ' followed by the trimmed line.
C5_HaltsOnFifthExhaustionOfInvocation ==
    InChapter
    => /\ \A p \in AppendedHere :
            translatedLines[p] = NotTranslated(trim(sourceLines[p]))
       /\ pc = "exited" => /\ consecutiveFailures = 5
                           /\ Cardinality(AppendedHere) = 4
                           /\ NeedsTranslation(sourceLines[i + 1])
       /\ pc # "exited" => consecutiveFailures < 5
       /\ pc \in {"loop", "attempt"} => Cardinality(AppendedHere) = consecutiveFailures

C5_Witness == pc = "exited" /\ consecutiveFailures = 5 /\ ~run.succeeded

\* C5 as stated: once the chapters of a run in which every call failed have
\* had five translatable lines given up in total, the process has halted.
C5_HaltsOnFifthExhaustionOfRun ==
    (~run.succeeded /\ run.exhausted >= 5) => pc = "exited"

\* C6 (term identity): no two entries of the collection have the same
\* normalized key, the lower-cased and trimmed `from`.
C6_OneEntryPerNormalizedKey ==
    \A e1, e2 \in store :
      KeywordId(e1.metadata) = KeywordId(e2.metadata) => e1 = e2

\* ' sorcerer ' was added to a collection that held 'Sorcerer' and nothing
\* else, the store call went through, and one entry is there.
C6_Witness ==
    /\ termOp.op = "add" /\ termOp.keyword = sorcerer
    /\ termOp.batch # <<>> /\ termOp.stored
    /\ Metadatas(termOp.before) = {Sorcerer}
    /\ Cardinality(store) = 1

\* A term of the backup the last syncKeywordsFromJson read whose normalized
\* key the collection did not hold and whose embedding came back.
AbsentAndEmbedded(kw) ==
    /\ termOp.op = "sync"
    /\ termOp.snapshot.exists /\ termOp.snapshot.ok
    /\ \E k \in 1..Len(termOp.snapshot.value) : termOp.snapshot.value[k] = kw
    /\ KeywordId(kw) \notin StoreIds(termOp.before)
    /\ \E k \in 1..Len(termOp.batch) : termOp.batch[k] = kw

\* No other term of that backup has the normalized key of kw.
KeyUniqueInSnapshot(kw) ==
    \A k \in 1..Len(termOp.snapshot.value) :
      KeywordId(termOp.snapshot.value[k]) = KeywordId(kw)
      => termOp.snapshot.value[k] = kw

Reconciled(kw) ==
    /\ [id |-> KeywordId(kw), metadata |-> kw] \in store
    /\ keywordsJson.exists /\ keywordsJson.ok
    /\ {keywordsJson.value[k] : k \in 1..Len(keywordsJson.value)} = Metadatas(store)

C8_CheckpointIssuedBeforeNextLine ==
    pc \in {"loop", "attempt", "push", "unlink"}
    => /\ Len(translatedLines) = i
       /\ i > startIndex => inv.issued /\ inv.issuedLines = translatedLines

\* The translator is asked for a line after a copied decoration line, a
\* blank and a line given up were appended by this invocation.
C8_Witness ==
    /\ pc = "attempt"
    /\ inv.issued
    /\ \E a, b, c \in (startIndex + 1)..Len(translatedLines) :
         /\ DecorationOnly(sourceLines[a])
         /\ sourceLines[b] = <<>>
         /\ NeedsTranslation(sourceLines[c])
         /\ translatedLines[c] = NotTranslated(trim(sourceLines[c]))

\* C9 (no repeated work on resume): after a state file of k lines was
\* loaded the cursor is k, no translator call is for an index below k, and
\* the lines before k, in translatedLines and in the final file, are the
\* loaded ones.
C9_ResumeRepeatsNothing ==
    (inv.load = "ok" /\ InChapter)
    => LET k == Len(inv.ckpt)
       IN /\ startIndex = k
          /\ \A idx \in inv.calls : idx >= k
          /\ Len(translatedLines) >= k
          /\ SubSeq(translatedLines, 1, k) = inv.ckpt
          /\ inv.finalized
             => translatedFile[chapterNumber].data =
                  join(inv.ckpt \o SubSeq(translatedLines, k + 1, Len(translatedLines)),
                       <<LF>>)

C9_Witness ==
    /\ inv.load = "ok" /\ pc = "unlink" /\ inv.finalized
    /\ Len(inv.ckpt) > 0
    /\ inv.calls # {}

\* C10 (corrupt checkpoint is never fatal): when the state file is missing,
\* unreadable or unparseable the invocation starts at line 0 with no
\* translated line and an empty buffer, goes through every line and
\* finalizes all of them.
C10_BadStateFileStartsFresh ==
    (inv.load \in {"ENOENT", "SyntaxError", "EIO"} /\ InChapter)
    => /\ startIndex = 0
       /\ inv.ckpt = <<>>
       /\ (pc = "loop" /\ i = 0) => translatedLines = <<>> /\ previousLinesBuffer = <<>>
       /\ Len(translatedLines) = i
       /\ inv.finalized
          => /\ Len(translatedLines) = Len(sourceLines)
             /\ translatedFile[chapterNumber].data = join(translatedLines, <<LF>>)

\* A truncated state file was found, and the chapter was finalized all the same.
C10_Witness ==
    inv.load = "SyntaxError" /\ inv.finalized /\ pc = "unlink" /\ inv.calls # {}

\* The entries an uninterrupted run has appended to the window once `out`
\* holds the outputs of the first lines: one per translated line, in order.
RECURSIVE TranslatedEntries(_, _)
TranslatedEntries(lines, out) ==
    IF out = <<>> THEN <<>>
    ELSE LET n == Len(out)
             before == TranslatedEntries(lines, SubSeq(out, 1, n - 1))
             currentLine == trim(lines[n])
         IN IF NeedsTranslation(lines[n]) /\ out[n] # NotTranslated(currentLine)
            THEN Append(before, [from |-> currentLine, to |-> out[n]])
            ELSE before

\* The last n elements of a sequence, all of them when it has fewer.
LastOf(seq, n) == SubSeq(seq, Max(1, Len(seq) - n + 1), Len(seq))

\* The window never holds more than CONTEXT_WINDOW entries.
WindowIsBounded == Len(previousLinesBuffer) <= CONTEXT_WINDOW

\* In a process that was never started again the window is the last
\* CONTEXT_WINDOW translated lines.
WindowOfUninterruptedRun ==
    (restarts = 0 /\ pc \in {"loop", "attempt"})
    => previousLinesBuffer =
         LastOf(TranslatedEntries(sourceLines, translatedLines), CONTEXT_WINDOW)

\* C11 (context window bound): where the translator is called or a line has
\* been completed the window holds at most 5 entries, and they are the most
\* recent translated lines in the order of their translation.
C11_WindowIsMostRecentEntries ==
    pc \in {"loop", "attempt"}
    => /\ Len(previousLinesBuffer) <= 5
       /\ previousLinesBuffer =
            LastOf(TranslatedEntries(sourceLines, translatedLines), 5)

\* One step of the process on a translatable line, a kill left aside.
\* A translator call is made only after fewer than 2 failures for the line;
\* it either succeeds (the line is done, its output is the translation and
\* the counter is 0), or fails with a retry left (same line, nothing else
\* changes), or fails for the 2nd time (the output is the sentinel and the
\* counter goes up by one).  The output is then appended as it is and the
\* loop moves to the next line, where the count of attempts starts at 0.
RetryStep ==
    LET sentinel == NotTranslated(trim(sourceLines[i + 1]))
    IN /\ (pc = "attempt" /\ pc' # "main")
          => /\ attempts < 2
             /\ \/ /\ attempts' = attempts
                   /\ pc' = "push"
                   /\ currentTranslatedLine' # sentinel
                   /\ consecutiveFailures' = 0
                \/ /\ attempts' = attempts + 1 /\ attempts' < 2
                   /\ pc' = "attempt"
                   /\ UNCHANGED <<i, consecutiveFailures, currentTranslatedLine,
                                  translatedLines>>
                \/ /\ attempts' = 2
                   /\ pc' \in {"push", "exited"}
                   /\ currentTranslatedLine' = sentinel
                   /\ consecutiveFailures' = consecutiveFailures + 1
       /\ (pc = "push" /\ pc' # "main")
          => /\ pc' = "loop" /\ i' = i + 1
             /\ translatedLines' = Append(translatedLines, currentTranslatedLine)
             /\ UNCHANGED consecutiveFailures
       /\ (pc = "loop" /\ pc' = "attempt") => attempts' = 0 /\ UNCHANGED i

KillSwitchStep ==
    /\ (consecutiveFailures' >= 5) => pc' = "exited"
    /\ pc = "exited"
       => /\ UNCHANGED <<files, terms>>
          /\ \/ UNCHANGED <<pc, ci, locals, inv, run>>
             \/ pc' = "main" /\ restarts' = restarts + 1 /\ inv' = NoInvocation

\* C13 (kill-switch stops all work): when the consecutive-failure counter
\* reaches 5 the process halts, and the halted process makes no translator
\* call, writes no term, state file or final file and starts no chapter.
C13_KillSwitchStopsAllWork == [][KillSwitchStep]_vars

\* The process has halted in a chapter that has no final file while a later
\* chapter of the list has not been fetched.
C13_Witness ==
    /\ pc = "exited"
    /\ ~translatedFile[chapterNumber].exists
    /\ \E c \in ChapterIds : c > chapterNumber /\ ~sourceFile[c].exists

\* The final file of chapter ch is whole: one line per source line, the
\* lines of the checkpoint first.
FinalOutputWritten(ch, ckpt) ==
    LET out == split(translatedFile[ch].data)
    IN /\ translatedFile[ch].exists
       /\ Len(out) = Len(split(sourceFile[ch].data))
       /\ Len(ckpt) <= Len(out)
       /\ SubSeq(out, 1, Len(ckpt)) = ckpt

\* C14 (finalization ordering): when an invocation has removed a state file
\* that held lines of its chapter, the final file of the chapter is in place
\* with all its lines, so that the lines are never in neither file.
C14_CheckpointDeletedAfterFinalOutput ==
    (inv.ch \in ChapterIds /\ Len(inv.ckpt) > 0 /\ ~stateFile[inv.ch].exists)
    => FinalOutputWritten(inv.ch, inv.ckpt)

\* C15 (upsert overwrites): after an addKeywordDocument whose embedding
\* came back and whose store call went through, the entry under the
\* normalized key of the keyword has the `to` of the keyword.
C15_AddOverwrites ==
    (termOp.op = "add" /\ termOp.batch # <<>> /\ termOp.stored)
    => \E e \in store : /\ e.id = KeywordId(termOp.keyword)
                        /\ e.metadata.to = termOp.keyword.to

\* The keywords of an answer that addKeywordDocument is to be called for.
RECURSIVE NonBlank(_)
NonBlank(keywords) ==
    IF keywords = <<>> THEN <<>>
    ELSE (IF trim(Head(keywords).from) = <<>> THEN <<>> ELSE <<Head(keywords)>>)
         \o NonBlank(Tail(keywords))

\* The translator has just answered for the line in hand.
AnsweredThisLine ==
    pc = "push" /\ inv.answer.line = i /\ i < Len(sourceLines)

\* C16 (term upsert failure is non-fatal to the line): once the translator
\* has answered, addKeywordDocument has been called for every non-blank
\* keyword of the answer in order, whichever calls failed; the output of the
\* line is the translation, the window ends with the line, and the line is
\* not attempted again.
C16_KeywordFailureKeepsTheLine ==
    AnsweredThisLine
    => LET a == inv.answer
       IN /\ [k \in 1..Len(a.tried) |-> a.tried[k].keyword] = NonBlank(a.newKeywords)
          /\ \A k \in 1..Len(a.tried) :
               (~a.tried[k].threw /\ a.tried[k].added)
               => KeywordId(a.tried[k].keyword) \in StoreIds(store)
          /\ currentTranslatedLine = a.translatedLine
          /\ previousLinesBuffer # <<>>
          /\ previousLinesBuffer[Len(previousLinesBuffer)] =
               [from |-> trim(sourceLines[i + 1]), to |-> a.translatedLine]
          /\ consecutiveFailures = 0

\* The embedding for the first keyword failed, the second came too late for
\* nothing: it is in the collection.
C16_Witness ==
    /\ AnsweredThisLine
    /\ Len(inv.answer.tried) = 2
    /\ inv.answer.tried[1].threw
    /\ ~inv.answer.tried[2].threw /\ inv.answer.tried[2].added
    /\ StoreIds(store) = {KeywordId(Apprentice)}

\* The state write just issued did not reach the file.
StateWriteFailed ==
    /\ pc = "push" /\ pc' # "main"
    /\ inv'.issued
    /\ stateFile'[chapterNumber] # JsonFile(inv'.issuedLines)

\* A failed state write leaves the line appended and the loop at the next
\* line; the final write is the join of one output per source line.
CheckpointFailureStep ==
    /\ StateWriteFailed
       => /\ pc' = "loop" /\ i' = i + 1
          /\ translatedLines' = Append(translatedLines, currentTranslatedLine)
    /\ (pc = "loop" /\ pc' = "unlink")
       => /\ Len(translatedLines) = Len(sourceLines)
          /\ translatedFile'[chapterNumber] =
               TextFile(join(translatedLines, <<LF>>))

\* C17 (checkpoint write failure does not block progress): when the state
\* write after a line fails the loop still goes to the next line, and the
\* final file of a chapter that completes holds every line.
C17_StateWriteFailureDoesNotBlock == [][CheckpointFailureStep]_vars

\* A chapter with translated lines was finalized although no state write
\* of the invocation ever reached the file.
C17_Witness ==
    /\ pc = "unlink" /\ inv.finalized /\ inv.issued /\ inv.calls # {}
    /\ inv.load = "ENOENT"
    /\ ~stateFile[chapterNumber].exists
    /\ translatedFile[chapterNumber] = TextFile(join(translatedLines, <<LF>>))
    /\ Len(translatedLines) = Len(sourceLines)

\* The files of chapter c.
ChapterFiles(c) == <<sourceFile[c], translatedFile[c], stateFile[c]>>

\* The chapter the loop of main is at.
CurrentChapter == E.chapters[ci]

\* Where a translateChapter invocation is under way.
InvocationPcs == {"translateChapter", "loop", "attempt", "push", "unlink"}
InInvocation == pc \in InvocationPcs

\* One step of a run: the chapters are in ascending order; the loop of main
\* goes from one chapter to the next only from its own body, with no
\* invocation left under way; an invocation starts only from that loop, for
\* the chapter the loop is at; only the files of that chapter change.
SequentialStep ==
    /\ \A j, k \in DOMAIN E.chapters : j < k => E.chapters[j] < E.chapters[k]
    /\ InInvocation => ci \in DOMAIN E.chapters /\ chapterNumber = CurrentChapter
    /\ ci' # ci
       => \/ ci' = ci + 1 /\ pc' = "fetch" /\ pc \in {"access"} \cup InvocationPcs
          \/ ci' = 1 /\ pc' \in {"main", "fetch"}
    /\ (pc' = "translateChapter" /\ pc # "translateChapter")
       => pc = "access" /\ ci' = ci /\ chapterNumber' = CurrentChapter
    /\ \A c \in ChapterIds :
         ChapterFiles(c)' # ChapterFiles(c)
         => /\ ci \in DOMAIN E.chapters /\ c = CurrentChapter
            /\ pc \in {"fetch"} \cup InvocationPcs

\* C18 (strictly sequential chapters): chapters are handled in ascending
\* chapter number, the fetch or translation of the next chapter starts only
\* after the invocation for the current one has returned, and every write
\* to a chapter's files comes from the one chapter in progress.
C18_ChaptersAreSequential == [][SequentialStep]_vars

\* The second chapter is being translated in the first run: the first one
\* is finalized and no later chapter has any file yet.
C18_Witness ==
    /\ restarts = 0 /\ pc = "attempt" /\ ci = 2 /\ chapterNumber = 2
    /\ translatedFile[1].exists /\ ~stateFile[1].exists
    /\ \A c \in ChapterIds : c > 2 => ChapterFiles(c) = <<NoFile, NoFile, NoJson>>

\* One step of a run around a chapter whose raw text is not there: a fetch
\* that leaves no source file changes nothing; the loop of main then goes
\* straight to the fetch of the next chapter, with no translator call and
\* no write; a run that ends has finalized every chapter that has raw text.
SkipStep ==
    /\ (pc = "fetch" /\ pc' = "access" /\ ~sourceFile'[CurrentChapter].exists)
       => UNCHANGED <<files, terms, ci, inv, run>>
    /\ (pc = "access" /\ ~sourceFile[CurrentChapter].exists /\ pc' # "main")
       => /\ pc' = "fetch" /\ ci' = ci + 1
          /\ UNCHANGED <<files, terms, inv, run>>
    /\ pc = "done"
       => \A k \in DOMAIN E.chapters :
            sourceFile[E.chapters[k]].exists => translatedFile[E.chapters[k]].exists

\* C19 (skip and continue): a chapter whose raw text cannot be obtained gets
\* no translator call and no final file, its fetch is not tried again in
\* the run, and the chapters after it are still processed.
C19_SkipAndContinue == [][SkipStep]_vars

\* A first run that ended: the first chapter was skipped, the second one is
\* finalized.
C19_Witness ==
    /\ restarts = 0 /\ pc = "done"
    /\ ChapterFiles(1) = <<NoFile, NoFile, NoJson>>
    /\ translatedFile[2].exists /\ inv.ch = 2 /\ inv.calls # {}

\* Every chapter of the list has its raw text and its final file.
AllFinalized ==
    \A k \in DOMAIN E.chapters :
      sourceFile[E.chapters[k]].exists /\ translatedFile[E.chapters[k]].exists

\* One step once every chapter is finalized: no fetch of a page can be
\* taken, no translator call starts, succeeds or is exhausted, and no
\* source file and no final file changes.
IdempotentStep ==
    AllFinalized
    => /\ ~ENABLED (FetchNew \/ FetchFails)
       /\ pc' # "attempt"
       /\ run' = run \/ run' = NewRun
       /\ UNCHANGED <<sourceFile, translatedFile>>

\* C20 (idempotent pipeline): a run started when every chapter is finalized
\* fetches no raw text, calls the translator for no chapter and leaves
\* every raw-text file and every final file as it was.
C20_RerunChangesNothing == [][IdempotentStep]_vars

\* A second run has ended: it found every chapter finalized by the first
\* one and made no translator call.
C20_Witness ==
    /\ restarts = 1 /\ pc = "done" /\ AllFinalized
    /\ run = NewRun
    /\ inv.hadFinal /\ inv.ch = E.chapters[Len(E.chapters)]

\* The last operation was a syncKeywordsFromJson that read its backup.
SyncRead == termOp.op = "sync" /\ termOp.snapshot.exists /\ termOp.snapshot.ok

\* What that synchronisation found to upsert.
SyncTodo == keywordsToUpsert(termOp.before, termOp.snapshot.value)

\* The entries of the collection st under the normalized key of kw.
EntriesOf(st, kw) == {e \in st : e.id = KeywordId(kw)}

\* Entry k of todo is the last one of its key whose embedding came back.
LastEmbeddedOfKey(todo, k) ==
    /\ termOp.embedOk[k]
    /\ \A j \in (k + 1)..Len(todo) :
         KeywordId(todo[j]) = KeywordId(todo[k]) => ~termOp.embedOk[j]

\* No entry of todo with the key of entry k had its embedding come back.
KeyNotEmbedded(todo, k) ==
    \A j \in 1..Len(todo) :
      KeywordId(todo[j]) = KeywordId(todo[k]) => ~termOp.embedOk[j]

EmptySource == inv.ch \in ChapterIds /\ sourceFile[inv.ch] = TextFile(<<>>)

\* C22 (empty chapter): an invocation on an empty source file makes no
\* translator call, issues no state write, writes an empty final file and
\* leaves no state file once it has finalized.
C22_EmptyChapterWritesNoCheckpoint ==
    EmptySource
    => /\ inv.calls = {}
       /\ ~inv.issued
       /\ inv.finalized => translatedFile[inv.ch] = TextFile(<<>>)
       /\ (inv.finalized /\ pc \in {"fetch", "done"}) => ~stateFile[inv.ch].exists

\* The invocation observed, on a source file that is there, has returned
\* to the loop of main.
InvocationReturned ==
    /\ inv.ch \in ChapterIds /\ sourceFile[inv.ch].exists
    /\ pc \in {"fetch", "done"}

\* The state file of the chapter holds one line per source line.
CheckpointIsComplete ==
    /\ stateFile[inv.ch] = JsonFile(translatedLines)
    /\ Len(translatedLines) >= Len(sourceLines)

LineOutputs(l) ==
    IF skipRegex(l) THEN {l}
    ELSE IF trim(l) = <<>> THEN {<<>>}
    ELSE {r.translatedLine : r \in E.responses} \cup {NotTranslated(trim(l))}

\* C24 (line-for-line output): the final file an invocation has written has
\* as many lines as the source, and each one is the output of the source
\* line at its index.
C24_OutputIsLineForLine ==
    (inv.finalized /\ pc = "unlink")
    => LET out == split(translatedFile[chapterNumber].data)
       IN /\ Len(out) = Len(sourceLines)
          /\ \A k \in 1..Len(out) : out[k] \in LineOutputs(sourceLines[k])

\* The line of the iteration under way is blank or matched by skipRegex.
AtPassThroughLine ==
    /\ pc \in {"loop", "push"} /\ i < Len(sourceLines)
    /\ ~NeedsTranslation(sourceLines[i + 1])

\* One step of the iteration of such a line, the process not being killed:
\* its output is the line itself or, for a blank line, the empty string;
\* no translator call is made, and the collection, the backup and the
\* buffer are left alone.
PassThroughStep ==
    (AtPassThroughLine /\ pc' # "main")
    => /\ pc = "loop"
          => /\ pc' = "push"
             /\ currentTranslatedLine' =
                  IF skipRegex(sourceLines[i + 1]) THEN sourceLines[i + 1] ELSE <<>>
       /\ pc = "push"
          => /\ pc' = "loop"
             /\ translatedLines' = Append(translatedLines, currentTranslatedLine)
       /\ inv'.calls = inv.calls
       /\ UNCHANGED <<terms, previousLinesBuffer, consecutiveFailures>>

\* C25 (blank and decoration lines pass through): a blank line yields the
\* empty string, and a blank or decoration-only line is processed without
\* translator call, without access to the term store and without change
\* of the context window.
C25_PassThroughLeavesContextAlone == [][PassThroughStep]_vars

\* A decoration line has its output while the buffer and the collection
\* hold what an earlier line left.
C25_Witness ==
    /\ pc = "push" /\ AtPassThroughLine
    /\ skipRegex(sourceLines[i + 1]) /\ trim(sourceLines[i + 1]) # <<>>
    /\ currentTranslatedLine = sourceLines[i + 1]
    /\ previousLinesBuffer # <<>> /\ store # {}

\* One step that is a failed attempt: the attempt counter goes up.
FailedAttemptStep ==
    (pc = "attempt" /\ attempts' = attempts + 1)
    => UNCHANGED <<store, keywordsJson, previousLinesBuffer, translatedLines,
                   stateFile, translatedFile>>

\* C26 (a failed attempt has no side effects): an attempt whose
\* generateTranslatedLine rejects leaves the collection, the backup, the
\* buffer, translatedLines and the state file as they were.
C26_FailedAttemptChangesNothing == [][FailedAttemptStep]_vars

\* An attempt has failed on a line that comes after a translated and
\* checkpointed one that left a keyword.
C26_Witness ==
    /\ pc = "attempt" /\ attempts = 1
    /\ store # {} /\ keywordsJson.exists /\ previousLinesBuffer # <<>>
    /\ translatedLines # <<>>
    /\ stateFile[chapterNumber] = JsonFile(translatedLines)

\* The terms of the backup the last synchronisation read.
SnapshotTerms ==
    {termOp.snapshot.value[k] : k \in 1..Len(termOp.snapshot.value)}

\* Every embedding asked for by the last synchronisation came back.
AllEmbedded == \A k \in DOMAIN termOp.embedOk : termOp.embedOk[k]

\* The backup wins: every term of it has its key in the collection with
\* its `to`; the entries of other keys are what they were.
SnapshotWins ==
    /\ \A kw \in SnapshotTerms :
         \E e \in store : e.id = KeywordId(kw) /\ e.metadata.to = kw.to
    /\ \A e \in termOp.before :
         (\A kw \in SnapshotTerms : KeywordId(kw) # e.id) => e \in store

\* No two terms of the backup have one key and different `to`.
SnapshotIsConsistent ==
    \A kw1, kw2 \in SnapshotTerms :
      KeywordId(kw1) = KeywordId(kw2) => kw1.to = kw2.to

MissingAndNotEmbedded(kw) ==
    /\ SyncRead
    /\ KeywordId(kw) \notin StoreIds(termOp.before)
    /\ \E k \in 1..Len(SyncTodo) : SyncTodo[k] = kw /\ ~termOp.embedOk[k]

\* The step of main from syncKeywordsFromJson to the end of
\* fetchAllKeywordsAndSave: such a term is in the backup afterwards.
StartupKeepsTerm ==
    \A kw \in TermKeywords :
      (MissingAndNotEmbedded(kw) /\ termOp'.op = "backup")
      => /\ keywordsJson'.exists /\ keywordsJson'.ok
         /\ \E k \in 1..Len(keywordsJson'.value) : keywordsJson'.value[k] = kw

\* C28 (partial synchronisation is retried by a later run): a term of the
\* backup that is missing in the collection and whose embedding fails in
\* syncKeywordsFromJson is still in the backup file when the backup of
\* start-up has been written.
C28_FailedTermStaysInSnapshot == [][StartupKeepsTerm]_vars

\* The last operation wrote to the collection and then wrote the backup:
\* an addKeywordDocument whose collection.add resolved, or a
\* synchronisation whose batch was upserted.
StoredAndSaved ==
    /\ termOp.op \in {"add", "sync"}
    /\ termOp.op = "sync" => SyncRead
    /\ termOp.batch # <<>> /\ termOp.stored /\ termOp.saved

\* The backup lists the metadata of the collection, one term per entry,
\* ascending by `from`.
SnapshotMirrorsStore ==
    /\ keywordsJson.exists /\ keywordsJson.ok
    /\ LET v == keywordsJson.value
       IN /\ Len(v) = Cardinality(store)
          /\ {v[k] : k \in 1..Len(v)} = Metadatas(store)
          /\ \A j, k \in 1..Len(v) :
               j < k => ~localeCompareLess(v[k].from, v[j].from)

\* C29 (the snapshot mirrors the store): after an addKeywordDocument that
\* added and after a synchronisation that upserted, when the backup write
\* went through, the backup holds exactly the terms of the collection, one
\* per entry, ascending by `from`.
C29_SnapshotMirrorsStore == StoredAndSaved => SnapshotMirrorsStore

\* 'S' was added to a collection that held 'a': the backup lists 'a', 'S'.
C29_Witness ==
    /\ termOp.op = "add" /\ termOp.keyword = Sorcerer /\ StoredAndSaved
    /\ Metadatas(termOp.before) = {Apprentice}
    /\ keywordsJson = JsonFile(<<Apprentice, Sorcerer>>)

\* The ids of the keywords of an answer whose collection.add resolved.
AddedIds(answer) ==
    {KeywordId(answer.tried[k].keyword) :
       k \in {n \in 1..Len(answer.tried) : answer.tried[n].added}}

\* One step of a run after start-up: no entry leaves the collection; while
\* the translator is asked about line i, the last answer of the invocation
\* is of an earlier line; the keywords an answer added are in the
\* collection as soon as the attempt is over.
PropagateStep ==
    /\ (pc # "main" /\ pc' # "main") => store \subseteq store'
    /\ pc = "attempt" => inv.answer.line < i
    /\ AddedIds(inv'.answer) \subseteq StoreIds(store')

\* C30 (terms propagate forward): a term added while a line is processed
\* is in the collection when the search for any later line of the chapter,
\* or for any line of a later chapter of the run, is issued.
C30_TermsPropagateForward == [][PropagateStep]_vars

\* The translator is asked about a line of the second chapter of a first
\* run while the collection holds the keyword the first chapter added.
C30_Witness ==
    /\ restarts = 0 /\ pc = "attempt" /\ ci = 2
    /\ inv.answer = NoAnswer
    /\ StoreIds(store) = {KeywordId(Apprentice)}

\* Line p of the chapter stands in translatedLines as given up.
GivenUp(p) ==
    /\ NeedsTranslation(sourceLines[p])
    /\ translatedLines[p] = NotTranslated(trim(sourceLines[p]))

\* The lines given up among lines startIndex+1..k since the last line of
\* them that was translated; blank and decoration lines do not count.
RECURSIVE Streak(_)
Streak(k) ==
    IF k <= startIndex THEN 0
    ELSE IF ~NeedsTranslation(sourceLines[k]) THEN Streak(k - 1)
    ELSE IF GivenUp(k) THEN 1 + Streak(k - 1)
    ELSE 0

\* The same count with the line under way, whose output is not yet pushed.
StreakNow ==
    IF pc \in {"push", "exited"} /\ NeedsTranslation(sourceLines[i + 1])
    THEN IF currentTranslatedLine = NotTranslated(trim(sourceLines[i + 1]))
         THEN 1 + Streak(i) ELSE 0
    ELSE Streak(i)

RotatesFor(t) ==
    LET n == Len(genai.clients)
        k == genai.calls[t] - 1
    IN /\ genai.calls[t] > 0
          => genai.returned[t] = genai.clients[(k % n) + 1]
       /\ t \in DOMAIN genai.clientIndices
          => /\ genai.clientIndices[t].kind = "number"
             /\ genai.clientIndices[t].n \in 0..(n - 1)

\* The rotation of the operation types that name no member of
\* Object.prototype, whatever calls are interleaved with theirs.
OwnTypesRotate ==
    \A t \in OperationTypes \ ObjectPrototype : RotatesFor(t)

\* An operation type first seen at call time was called more often than
\* there are clients, between calls for the other types.
OwnTypesRotate_Reached ==
    /\ Len(genai.clients) = 2
    /\ genai.calls["default"] = 3
    /\ genai.calls["translation"] = 2
    /\ genai.calls["embedding"] = 1
    /\ genai.returned["default"] = Client(1)

\* C32: with n >= 1 clients, the k-th call (from 0) of getNextClient for an
\* operation type returns clients[k mod n], however many calls for other
\* types are interleaved, and every cursor stays in [0, n), also for a type
\* first seen at call time.
C32_RoundRobinPerCategory ==
    \A t \in OperationTypes : RotatesFor(t)

\* The context window holds the sentinel of a line given up on.
SentinelInWindow ==
    \E k \in DOMAIN previousLinesBuffer :
        previousLinesBuffer[k].to = NotTranslated(previousLinesBuffer[k].from)

\* The window of an invocation that did not resume from a checkpoint holds
\* no sentinel.
LiveWindowHasNoSentinel ==
    (InChapter /\ startIndex = 0) => ~SentinelInWindow

\* C33: a line whose translation exhausted its retries contributes no entry
\* to the context window, neither in the run that gave it up nor in the
\* window rebuilt when a later invocation resumes from a checkpoint holding
\* its sentinel.
C33_SentinelNeverInWindow == ~SentinelInWindow

\* `line` is the output of a line given up on.
IsSentinel(line) == line # <<>> /\ line[1] = "NOT TRANSLATED: "

\* The 1-based positions of the sentinel lines in the state file of chapter c.
SentinelsInCheckpoint(c) ==
    IF stateFile[c].exists /\ stateFile[c].ok
    THEN {p \in DOMAIN stateFile[c].value : IsSentinel(stateFile[c].value[p])}
    ELSE {}

\* An invocation that loaded a checkpoint asks the translator for none of
\* its sentinel lines and writes them to the final file as they are.
SentinelKeptWhenLoaded ==
    (inv.load = "ok" /\ InChapter)
    => \A p \in DOMAIN inv.ckpt :
         IsSentinel(inv.ckpt[p])
         => /\ (p - 1) \notin inv.calls
            /\ translatedLines[p] = inv.ckpt[p]
            /\ inv.finalized
               => split(translatedFile[chapterNumber].data)[p] = inv.ckpt[p]

\* An invocation that has not yet written the state file of its chapter has
\* not asked the translator for a line whose sentinel that file holds.
SentinelNotAskedAgain ==
    (InChapter /\ ~inv.issued)
    => \A p \in SentinelsInCheckpoint(chapterNumber) : (p - 1) \notin inv.calls

\* The final file of a chapter holds the sentinel lines of its state file.
SentinelInFinalOutput ==
    \A c \in ChapterIds :
      translatedFile[c].exists
      => \A p \in SentinelsInCheckpoint(c) :
           LET out == split(translatedFile[c].data)
           IN p <= Len(out) /\ out[p] = stateFile[c].value[p]

\* C34: once a 'NOT TRANSLATED: ...' line has been written to a chapter's
\* checkpoint, no later invocation of translateChapter calls the translator
\* for that line, and the chapter's final file holds that sentinel line.
C34_SentinelsArePermanent == SentinelNotAskedAgain /\ SentinelInFinalOutput

\* The process has left on the fifth line given up in a row, line i.
Halted == pc = "exited"

\* The lines [0, i) and no more are in translatedLines, and in the state
\* file when `written` says that the last state write went through.
CheckpointAtHalt(written) ==
    /\ Len(translatedLines) = i
    /\ i < Len(sourceLines) /\ NeedsTranslation(sourceLines[i + 1])
    /\ inv.issued /\ inv.issuedLines = translatedLines
    /\ written => stateFile[chapterNumber] = JsonFile(translatedLines)

\* translateChapter is at the chapter the process left at, after the program
\* was started again.
BackAtHaltedChapter ==
    lastKill.halted /\ InChapter /\ chapterNumber = lastKill.ch

\* The cursor is the line the process left at, and no line was sent to the
\* translator before that line was.
ResumesAtHaltedLine ==
    /\ startIndex = lastKill.cursor
    /\ \A idx \in inv.calls : idx >= lastKill.cursor
    /\ inv.calls # {} => lastKill.cursor \in inv.calls
    /\ (pc = "attempt" /\ inv.calls = {}) => i = lastKill.cursor

FinalWriteRejected == pc = "loop" /\ i >= Len(sourceLines) /\ pc' = "fetch"

\* The rejected final write leaves the state file as it is, and no final
\* file that the entry guard of a later invocation would find.
RejectedStep ==
    FinalWriteRejected
    => /\ stateFile' = stateFile
       /\ ~alreadyTranslated(chapterNumber)'

\* The rejected final write leaves the state file as it is.
RejectedFinalWriteKeepsCheckpoint ==
    [][FinalWriteRejected => stateFile' = stateFile]_vars

\* The invocation observed is the first one for its chapter after a run
\* that went to its end and in which the final write of the chapter was
\* rejected.
AfterRejectedFinalWrite == inv.ch \in lastKill.unfinalized

\* The invocation resumed at the end of the lines, asked the translator for
\* nothing, and what it wrote as the final file is the lines of the state
\* file joined by newlines.
OnlyFinalizes ==
    /\ ~inv.hadFinal
    /\ inv.load = "ok"
    /\ inv.calls = {}
    /\ InChapter => startIndex = Len(sourceLines)
    /\ inv.finalized
       => translatedFile[inv.ch] = TextFile(join(inv.ckpt, <<LF>>))

\* After a rejected final write that left no file, an invocation that loads
\* a state file with one line per source line only finalizes.
CompleteCheckpointIsFinalized ==
    (/\ AfterRejectedFinalWrite
     /\ ~inv.hadFinal /\ inv.load = "ok"
     /\ Len(inv.ckpt) = Len(split(sourceFile[inv.ch].data)))
    => OnlyFinalizes

CompleteCheckpointIsFinalized_Reached ==
    /\ AfterRejectedFinalWrite /\ inv.finalized /\ inv.load = "ok"
    /\ Len(inv.ckpt) = 3 /\ pc = "unlink"

\* C36: if the write of the final file fails after all lines were processed,
\* the state file is not deleted and the chapter is not treated as finalized;
\* the next invocation resumes from that state file, makes no translator
\* call and writes a final file equal to its lines joined by newlines.
C36_FailedFinalizationKeepsProgress ==
    /\ [][RejectedStep]_vars
    /\ [](AfterRejectedFinalWrite => OnlyFinalizes)

\* s is a prefix of t.
IsPrefix(s, t) == Len(s) <= Len(t) /\ SubSeq(t, 1, Len(s)) = s

\* The state file of the chapter is there and holds lines.
CheckpointReadable ==
    stateFile[chapterNumber].exists /\ stateFile[chapterNumber].ok

\* The lines of the state file are the first of the lines in memory.
CheckpointIsPrefix ==
    CheckpointReadable => IsPrefix(stateFile[chapterNumber].value, translatedLines)

\* A state write that goes through writes every line in memory.
SaveStep ==
    (pc = "push" /\ pc' = "loop" /\ inv'.written)
    => /\ stateFile'[chapterNumber] = JsonFile(translatedLines')
       /\ Len(translatedLines') = i'

====
